---- MODULE Spec2Model ----
(***************************************************************************)
(* A model of coddog: the window hasher, the in-memory submatch finder,    *)
(* the similarity comparator and the database submatch query together     *)
(* with the command-line and HTTP handlers that call it.                   *)
(*                                                                         *)
(* Hashes (std DefaultHasher) are modelled by an injective encoding of the *)
(* hashed slice: equal slices hash equal, different slices hash different  *)
(* (hash collisions are excluded).                                         *)
(***************************************************************************)
EXTENDS Integers, Sequences, FiniteSets, TLC

VARIABLES
    db_window_size,   \* the DB_WINDOW_SIZE environment variable
    sources,          \* table sources:  id -> [project_id, version_id]
    symbols,          \* table symbols:  id -> [source_id, opcode_hash]
    windows,          \* table windows:  set of [symbol_id, pos, hash]
    resp,             \* what the last submatch handler did and answered
    mem,              \* the in-memory submatch pipeline (get_hashes, get_submatches)
    diff,             \* the similarity comparator (Symbol::new, diff_symbols)
    batch,            \* the in-memory cluster and compare commands
    hsym,             \* the three hashes of symbols built by Symbol::new
    mdb,              \* the symbols table behind the match queries, and their answer
    ingest,           \* the AddProject command and the rows it has written
    objs,             \* objects::create: the objects table, the blob files, the tasks
    rd,               \* read_elf and read_map: the symbols read from one file
    plat,             \* the platform lookup of the ingestion commands
    rel,              \* get_reloc_data: the relocation walk over one section
    clean             \* the CleanBins command

vars == <<db_window_size, sources, symbols, windows, resp, mem, diff,
          batch, hsym, mdb, ingest, objs, rd, plat, rel, clean>>

dbVars == <<db_window_size, sources, symbols, windows, resp>>

\* the state of the commands modelled after the submatch and diff commands
\* the state of the file readers and of the maintenance command
loadVars == <<rd, plat, rel, clean>>

laterVars == <<batch, hsym, mdb, ingest, objs, loadVars>>

\* a command that has not run
Idle == [stage |-> "idle"]

----------------------------------------------------------------------------
(* Bounds of the model *)

\* number of symbols ingested into the database
MaxSymbols == 2

\* longest opcode vector of an ingested or in-memory symbol
MaxLen == 3

\* opcodes of all ingested symbols together
MaxStored == 6

\* widest window a user may ask for
MaxUserWindow == 3

\* rows per bulk insert statement (CHUNK_SIZE scaled down)
ChunkSize == 2

\* instruction words in the raw bytes of a compared symbol
MaxInsns == 2

\* symbols given to the cluster command
MaxBatch == 3

\* symbols in each binary given to the compare command
MaxBin == 2

\* rows of the symbols table behind the match queries
MaxMatchSymbols == 3

\* instruction words of a hashed symbol
MaxHashInsns == 2
\* versions of one project configuration
MaxVersions == 2
\* object files found under the build directory of one version
MaxObjFiles == 2
\* transactions one task opens
MaxTx == 2
\* calls of objects::create inside one transaction
MaxCallsPerTx == 2
\* symbols written by the imports of object files
MaxPersisted == 3
\* relocations of one section
MaxRelocs == 3
\* instructions of a symbol whose operands are compared
MaxOperandInsns == 2
\* scratches of one decomp.me import
MaxScratches == 2
\* symbols of one object file or map file
MaxReadSymbols == 2

\* opcode ids the decoder yields for the ingested symbols
Opcodes == {1, 2}

\* opcode ids of the in-memory symbols; 0 is also the padding value
MemOpcodes == {0, 1, 2}

\* values of DB_WINDOW_SIZE
DbWindowSizes == {1, 2}

\* a NULL column value (sources.version_id is nullable)
NULL == 0

\* if req.size > 100
ApiMaxPageSize == 100

\* limit: 100 of the command-line request
CliPageLimit == 100

\* <<page, size>> of the HTTP requests
PagingInputs == {<<-1, 1>>, <<0, 0>>, <<0, 101>>, <<0, 1>>, <<1, 1>>}

----------------------------------------------------------------------------
(* Generic helpers *)

Min(S) == CHOOSE x \in S : \A y \in S : x <= y

Max(S) == CHOOSE x \in S : \A y \in S : x >= y

\* all sequences over S of length at most n
SeqsUpTo(S, n) == UNION {[1..k -> S] : k \in 0..n}

Range(s) == {s[i] : i \in DOMAIN s}

\* lexicographic strict order on tuples of integers
RECURSIVE LexLess(_, _)
LexLess(s, t) ==
    /\ s # <<>>
    /\ \/ s[1] < t[1]
       \/ s[1] = t[1] /\ LexLess(Tail(s), Tail(t))

----------------------------------------------------------------------------
(* Window hasher *)

\* width of the injective slice encoding
HashBase == 16

RECURSIVE HashOf(_)
\* DefaultHasher over a slice: the length prefix and then each element
HashOf(x) ==
    IF x = <<>> THEN 1
    ELSE HashOf(SubSeq(x, 1, Len(x) - 1)) * HashBase + (x[Len(x)] + 1)

\* Vec::resize(window_size, Default::default()) when the data is shorter
Resize(data, window_size) ==
    IF Len(data) < window_size
    THEN data \o [i \in 1..(window_size - Len(data)) |-> 0]
    ELSE data

\* the hasher without the padding step
get_hashes_nopad(data, window_size) ==
    [k \in 1..(IF Len(data) >= window_size THEN Len(data) - window_size + 1 ELSE 0) |->
        HashOf(SubSeq(data, k, k + window_size - 1))]

\* get_hashes: pad, then hash every slice of window_size elements
get_hashes(data, window_size) ==
    LET padded == Resize(data, window_size)
    IN  [k \in 1..(Len(padded) - window_size + 1) |->
            HashOf(SubSeq(padded, k, k + window_size - 1))]

\* Symbol::get_opcode_hashes
get_opcode_hashes(opcodes, window_size) == get_hashes(opcodes, window_size)

----------------------------------------------------------------------------
(* Persistence: bulk insert of a symbol's windows *)

\* slice::chunks(n): consecutive index ranges of at most n elements
Chunks(len, n) ==
    [c \in 1..((len + n - 1) \div n) |->
        [lo |-> (c - 1) * n + 1, hi |-> IF c * n < len THEN c * n ELSE len]]

\* the bulk insert with the positions counted from 0 again in every chunk
add_symbol_window_hashes_perchunk(hashes, symbol_id) ==
    LET chunks == Chunks(Len(hashes), ChunkSize)
    IN  UNION { { [symbol_id |-> symbol_id, pos |-> i - chunks[c].lo, hash |-> hashes[i]] :
                    i \in chunks[c].lo .. chunks[c].hi } : c \in DOMAIN chunks }

\* add_symbol_window_hashes: enumerate the hashes, insert them chunk by chunk
add_symbol_window_hashes(hashes, symbol_id) ==
    LET chunks == Chunks(Len(hashes), ChunkSize)
    IN  UNION { { [symbol_id |-> symbol_id, pos |-> i - 1, hash |-> hashes[i]] :
                    i \in chunks[c].lo .. chunks[c].hi } : c \in DOMAIN chunks }

----------------------------------------------------------------------------
(* Submatch query: db_query_windows_by_symbol_id *)

\* CTE potential_matches: windows a JOIN windows b ON a.hash = b.hash
\* WHERE a.symbol_id = $1 AND a.symbol_id != b.symbol_id
potential_matches(symbol_id) ==
    LET qa == { a \in windows : a.symbol_id = symbol_id }
        qb == { b \in windows : b.symbol_id # symbol_id }
    IN  { [symbol_id |-> p[2].symbol_id, query_pos |-> p[1].pos, match_pos |-> p[2].pos,
           hash |-> p[1].hash, pos_diff |-> p[1].pos - p[2].pos] :
            p \in { x \in qa \X qb : x[1].hash = x[2].hash } }

\* the row number taken over the whole symbol, the diagonal forgotten
ROW_NUMBER_nodiag(r, pm) ==
    Cardinality({ x \in pm : /\ x.symbol_id = r.symbol_id
                             /\ LexLess(<<x.query_pos, x.pos_diff>>,
                                        <<r.query_pos, r.pos_diff>>) }) + 1

\* ROW_NUMBER() OVER (PARTITION BY symbol_id, pos_diff ORDER BY query_pos).  Rows of
\* one partition with the same query_pos (there are none while (symbol_id, pos) is
\* unique in windows) are numbered one after the other, here by their hash.
ROW_NUMBER(r, pm) ==
    Cardinality({ x \in pm : /\ x.symbol_id = r.symbol_id
                             /\ x.pos_diff = r.pos_diff
                             /\ LexLess(<<x.query_pos, x.hash>>,
                                        <<r.query_pos, r.hash>>) }) + 1

\* CTE sequence_groups
sequence_groups(pm) ==
    { [symbol_id |-> r.symbol_id, query_pos |-> r.query_pos, match_pos |-> r.match_pos,
       hash |-> r.hash, pos_diff |-> r.pos_diff,
       sequence_id |-> r.query_pos - ROW_NUMBER(r, pm)] : r \in pm }

\* CTE final_sequences: GROUP BY symbol_id, pos_diff, sequence_id.  The grouping
\* columns stay in the row so that two groups are two rows, as in SQL.
final_sequences(sg) ==
    LET keys == { <<r.symbol_id, r.pos_diff, r.sequence_id>> : r \in sg }
        group(k) == { r \in sg : <<r.symbol_id, r.pos_diff, r.sequence_id>> = k }
    IN  { [symbol_id |-> k[1], pos_diff |-> k[2], sequence_id |-> k[3],
           start_query_pos |-> Min({ r.query_pos : r \in group(k) }),
           start_match_pos |-> Min({ r.match_pos : r \in group(k) }),
           length |-> Cardinality(group(k))] : k \in keys }

\* JOIN symbols, sources, projects
JoinMetadata(fs) ==
    { [project_id |-> sources[symbols[r.symbol_id].source_id].project_id,
       source_id |-> symbols[r.symbol_id].source_id,
       symbol_id |-> r.symbol_id, pos_diff |-> r.pos_diff, sequence_id |-> r.sequence_id,
       start_query_pos |-> r.start_query_pos, start_match_pos |-> r.start_match_pos,
       length |-> r.length] : r \in fs }

\* sort a set of rows ascending by Key; rows with equal keys come in any order
RECURSIVE SortBy(_, _)
SortBy(S, key) ==
    IF S = {} THEN <<>>
    ELSE LET m == CHOOSE x \in S : \A y \in S : ~LexLess(key[y], key[x])
         IN  <<m>> \o SortBy(S \ {m}, key)

\* ORDER BY project_id, source_id, symbol_id, start_query_pos, start_match_pos
OrderKey(r) ==
    <<r.project_id, r.source_id, r.symbol_id, r.start_query_pos, r.start_match_pos>>

\* ORDER BY length DESC, project_id, source_id, symbol_id, start_query_pos, start_match_pos
LengthDescKey(r) ==
    <<0 - r.length, r.project_id, r.source_id, r.symbol_id,
      r.start_query_pos, r.start_match_pos>>

\* the row struct DBWindow
DBWindow(r) ==
    [query_start |-> r.start_query_pos, match_start |-> r.start_match_pos,
     length |-> r.length, symbol_id |-> r.symbol_id, source_id |-> r.source_id,
     project_id |-> r.project_id]

\* final SELECT: ... WHERE length >= $2 ORDER BY ...
SelectRuns(joined, min_seq_len) ==
    LET kept == { r \in joined : r.length >= min_seq_len }
        sorted == SortBy(kept, [r \in kept |-> OrderKey(r)])
    IN  [i \in DOMAIN sorted |-> DBWindow(sorted[i])]

db_query_windows_by_symbol_id(symbol_id, min_seq_len) ==
    SelectRuns(JoinMetadata(final_sequences(sequence_groups(potential_matches(symbol_id)))),
               min_seq_len)

\* query_windows_by_symbol_id(QueryWindowsRequest): the paged query of the later
\* database crate: windows of the query symbol in [start, end], runs of at least
\* window_size - db_window_size + 1 windows, longest first, one page of them
query_windows_by_symbol_id(symbol_id, start, end, window_size, dbw, limit, page) ==
    LET pm == { r \in potential_matches(symbol_id) :
                    r.query_pos >= start /\ r.query_pos <= end }
        joined == JoinMetadata(final_sequences(sequence_groups(pm)))
        kept == { r \in joined : r.length >= window_size - dbw + 1 }
        sorted == SortBy(kept, [r \in kept |-> LengthDescKey(r)])
        lo == page * limit + 1
        hi == IF (page + 1) * limit < Len(sorted) THEN (page + 1) * limit ELSE Len(sorted)
    IN  [windows |-> [i \in 1..(IF hi >= lo THEN hi - lo + 1 ELSE 0) |->
                        DBWindow(sorted[lo + i - 1])],
         total |-> Len(sorted)]

----------------------------------------------------------------------------
(* In-memory submatch: get_submatches *)

\* hashes_1.iter().enumerate().filter(|(_, h)| hashes_2.contains(h)).map(...):
\* every position of hashes_1 whose hash occurs in hashes_2, with the first
\* position of that hash in hashes_2
matching_hashes(hashes_1, hashes_2) ==
    LET hit == { i \in DOMAIN hashes_1 : \E j \in DOMAIN hashes_2 : hashes_2[j] = hashes_1[i] }
        RECURSIVE collect(_)
        collect(i) ==
            IF i > Len(hashes_1) THEN <<>>
            ELSE IF i \in hit
            THEN <<[offset1 |-> i - 1,
                    offset2 |-> Min({ j \in DOMAIN hashes_2 : hashes_2[j] = hashes_1[i] }) - 1,
                    length |-> 1]>> \o collect(i + 1)
            ELSE collect(i + 1)
    IN  collect(1)

RECURSIVE match_groups(_, _, _, _)
\* the grouping loop: a match goes to the last group when its offset1 follows the
\* previous match's offset1, and opens a new group otherwise
match_groups(mhs, k, cur_pos, groups) ==
    IF k > Len(mhs) THEN groups
    ELSE IF mhs[k].offset1 = cur_pos + 1
    THEN match_groups(mhs, k + 1, mhs[k].offset1,
                      [groups EXCEPT ![Len(groups)] = Append(@, mhs[k])])
    ELSE match_groups(mhs, k + 1, mhs[k].offset1, Append(groups, <<mhs[k]>>))

get_submatches(hashes_1, hashes_2, window_size) ==
    LET mhs == matching_hashes(hashes_1, hashes_2)
    IN  IF mhs = <<>> THEN <<>>
        ELSE LET groups == match_groups(mhs, 1, mhs[1].offset1, <<>>)
             IN  [g \in DOMAIN groups |->
                    [offset1 |-> groups[g][1].offset1,
                     offset2 |-> groups[g][1].offset2,
                     length |-> Len(groups[g]) + window_size]]

MemIdle == [stage |-> "idle"]

\* do_submatch, first half: the window hashes of the query symbol and of another
\* symbol s; a symbol with the same opcodes is reported as a match and skipped
HashSymbols(a, b, window_size) ==
    /\ mem.stage = "idle"
    /\ mem' = IF a = b
              THEN [stage |-> "same", a |-> a, b |-> b, window_size |-> window_size,
                    hashes_1 |-> get_opcode_hashes(a, window_size), hashes_2 |-> <<>>,
                    matches |-> <<>>]
              ELSE [stage |-> "hashed", a |-> a, b |-> b, window_size |-> window_size,
                    hashes_1 |-> get_opcode_hashes(a, window_size),
                    hashes_2 |-> get_opcode_hashes(b, window_size),
                    matches |-> <<>>]
    /\ UNCHANGED <<dbVars, diff, laterVars>>

\* do_submatch, second half: pair_matches = get_submatches(&query_hashes, &hashes, window_size)
FindSubmatches ==
    /\ mem.stage = "hashed"
    /\ mem' = [mem EXCEPT !.stage = "matched",
                          !.matches = get_submatches(mem.hashes_1, mem.hashes_2,
                                                     mem.window_size)]
    /\ UNCHANGED <<dbVars, diff, laterVars>>

----------------------------------------------------------------------------
(* Symbols from raw bytes: Symbol::new, get_opcodes *)

\* Arch::insn_length
insn_length == 4

\* instruction words of the raw symbol bytes: the zero word, two words of one
\* opcode with different operands, and a word of a second opcode
Words == {<<0, 0, 0, 0>>, <<1, 0, 0, 0>>, <<1, 0, 0, 7>>, <<2, 0, 0, 0>>}

\* bytes after the last whole instruction word
Tails == {<<>>, <<1>>, <<0, 0>>}

\* the decoder's opcode id (u16) of an instruction word, decided by its leading byte
instruction_opcode(chunk) ==
    CASE chunk[1] = 0 -> 2
      [] chunk[1] = 1 -> 1
      [] OTHER -> 257

RECURSIVE trim_trailing_zeros(_)
\* while bytes.len() >= insn_length && the last insn_length bytes are zero: truncate
trim_trailing_zeros(bytes) ==
    IF /\ Len(bytes) >= insn_length
       /\ \A k \in (Len(bytes) - insn_length + 1)..Len(bytes) : bytes[k] = 0
    THEN trim_trailing_zeros(SubSeq(bytes, 1, Len(bytes) - insn_length))
    ELSE bytes

\* bytes.chunks_exact(insn_length).map(opcode): the remainder is dropped
get_opcodes(bytes) ==
    [i \in 1..(Len(bytes) \div insn_length) |->
        instruction_opcode(SubSeq(bytes, (i - 1) * insn_length + 1, i * insn_length))]

Symbol_new(def_bytes) ==
    LET bytes == trim_trailing_zeros(def_bytes)
    IN  [bytes |-> bytes, opcodes |-> get_opcodes(bytes)]

----------------------------------------------------------------------------
(* diff_symbols *)

\* f32 results: a NaN, or the exact ratio num / den with den > 0
NaN == [nan |-> TRUE, num |-> 0, den |-> 0]

Ratio(num, den) == [nan |-> FALSE, num |-> num, den |-> den]

\* the threshold k / 4, exact in f32
ThresholdOf(k) == Ratio(k, 4)

Thresholds == {ThresholdOf(k) : k \in 0..4}

RECURSIVE to_be_bytes(_)
\* opcodes.iter().flat_map(|&x| x.to_be_bytes()): two bytes per u16 opcode
to_be_bytes(opcodes) ==
    IF opcodes = <<>> THEN <<>>
    ELSE <<Head(opcodes) \div 256, Head(opcodes) % 256>> \o to_be_bytes(Tail(opcodes))

\* one row of the Levenshtein table from the row above it
edit_row(prev, x, b) ==
    LET RECURSIVE build(_, _)
        build(j, acc) ==
            IF j > Len(b) THEN acc
            ELSE build(j + 1,
                       Append(acc, Min({prev[j + 1] + 1, acc[j] + 1,
                                        prev[j] + (IF x = b[j] THEN 0 ELSE 1)})))
    IN  build(1, <<prev[1] + 1>>)

RECURSIVE edit_rows(_, _, _, _)
edit_rows(a, b, i, prev) ==
    IF i > Len(a) THEN prev[Len(b) + 1]
    ELSE edit_rows(a, b, i + 1, edit_row(prev, a[i], b))

edit_distance(a, b) == edit_rows(a, b, 1, [j \in 1..(Len(b) + 1) |-> j - 1])

\* Some(d) when the edit distance d is at most k, None otherwise
edit_distance_bounded(a, b, k) ==
    LET d == edit_distance(a, b)
    IN  IF d <= k THEN [some |-> TRUE, value |-> d] ELSE [some |-> FALSE, value |-> 0]

diff_symbols(sym1, sym2, threshold) ==
    LET l1 == Len(sym1.opcodes)
        l2 == Len(sym2.opcodes)
        max_edit_dist == l1 + l2
        abs_diff == IF l1 >= l2 THEN l1 - l2 ELSE l2 - l1
        \* abs_diff / max_edit_dist > 1.0 - threshold; 0.0 / 0.0 is NaN and compares false
        too_far == /\ max_edit_dist > 0
                   /\ abs_diff * threshold.den > (threshold.den - threshold.num) * max_edit_dist
        \* (max_edit_dist - max_edit_dist * threshold) as usize
        bound == (max_edit_dist * (threshold.den - threshold.num)) \div threshold.den
        found == edit_distance_bounded(to_be_bytes(sym1.opcodes), to_be_bytes(sym2.opcodes), bound)
    IN  IF too_far THEN Ratio(0, 1)
        ELSE IF found.some
        THEN IF max_edit_dist = 0 THEN NaN
             ELSE IF found.value = 0 /\ sym1.bytes # sym2.bytes THEN Ratio(9999, 10000)
             ELSE Ratio(max_edit_dist - found.value, max_edit_dist)
        ELSE Ratio(0, 1)

DiffIdle == [stage |-> "idle"]

\* the raw bytes of a symbol definition: up to n instruction words and a tail
RawBytes(n) ==
    LET RECURSIVE flat(_)
        flat(ws) == IF ws = <<>> THEN <<>> ELSE Head(ws) \o flat(Tail(ws))
    IN  { flat(ws) \o t : ws \in SeqsUpTo(Words, n), t \in Tails }

\* two symbols are built from the bytes of their definitions
NewSymbols(bytes1, bytes2) ==
    /\ diff.stage = "idle"
    /\ diff' = [stage |-> "built", sym1 |-> Symbol_new(bytes1), sym2 |-> Symbol_new(bytes2),
                threshold |-> Ratio(0, 1), score |-> Ratio(0, 1)]
    /\ UNCHANGED <<dbVars, mem, laterVars>>

\* the two symbols are compared under a threshold
DiffSymbols(threshold) ==
    /\ diff.stage = "built"
    /\ diff' = [diff EXCEPT !.stage = "scored", !.threshold = threshold,
                            !.score = diff_symbols(diff.sym1, diff.sym2, threshold)]
    /\ UNCHANGED <<dbVars, mem, laterVars>>

----------------------------------------------------------------------------
(* The in-memory cluster and compare commands *)

\* raw bytes of the symbols given to the cluster command: no bytes, an
\* instruction, another instruction, and the two in a row
ClusterPool ==
    {<<>>, <<1, 0, 0, 0>>, <<2, 0, 0, 0>>, <<1, 0, 0, 0, 2, 0, 0, 0>>}

\* raw bytes of the symbols of a compared binary: no bytes, an instruction, the
\* same instruction with another operand, and two instructions
BinaryPool ==
    {<<>>, <<1, 0, 0, 0>>, <<1, 0, 0, 7>>, <<1, 0, 0, 0, 2, 0, 0, 0>>}

\* min_len arguments
MinLens == {0, 2}

\* threshold arguments of the batch commands
BatchThresholds == {ThresholdOf(0), ThresholdOf(2)}

\* score > threshold on f32: false when the score is NaN
score_gt(score, other) ==
    /\ ~score.nan
    /\ ~other.nan
    /\ score.num * other.den > other.num * score.den

\* diff_symbols of the coddog-core crate next to get_clusters: the edit distance is
\* taken over the instruction ids themselves
diff_symbols_insns(sym1, sym2, threshold) ==
    LET l1 == Len(sym1.opcodes)
        l2 == Len(sym2.opcodes)
        max_edit_dist == l1 + l2
        abs_diff == IF l1 >= l2 THEN l1 - l2 ELSE l2 - l1
        too_far == /\ max_edit_dist > 0
                   /\ abs_diff * threshold.den > (threshold.den - threshold.num) * max_edit_dist
        bound == (max_edit_dist * (threshold.den - threshold.num)) \div threshold.den
        found == edit_distance_bounded(sym1.opcodes, sym2.opcodes, bound)
    IN  IF too_far THEN Ratio(0, 1)
        ELSE IF found.some
        THEN IF max_edit_dist = 0 THEN NaN
             ELSE IF found.value = 0 /\ sym1.bytes # sym2.bytes THEN Ratio(9999, 10000)
             ELSE Ratio(max_edit_dist - found.value, max_edit_dist)
        ELSE Ratio(0, 1)

\* the loop keeping the last cluster whose head matches instead of the first
last_cluster_match(syms, i, clusters, threshold) ==
    LET hits == { c \in DOMAIN clusters :
                    score_gt(diff_symbols_insns(syms[i], syms[clusters[c][1]], threshold),
                             threshold) }
    IN  IF hits = {} THEN 0 ELSE Max(hits)

\* for cluster in &mut clusters { if diff_symbols(symbol, cluster.syms[0]) > threshold
\* { push; break } }: the index of the first cluster the symbol joins, 0 if none
first_cluster_match(syms, i, clusters, threshold) ==
    LET hits == { c \in DOMAIN clusters :
                    score_gt(diff_symbols_insns(syms[i], syms[clusters[c][1]], threshold),
                             threshold) }
    IN  IF hits = {} THEN 0 ELSE Min(hits)

\* every cluster the symbol matches, as the loop would find them without its break
all_cluster_matches(syms, i, clusters, threshold) ==
    { c \in DOMAIN clusters :
        score_gt(diff_symbols_insns(syms[i], syms[clusters[c][1]], threshold), threshold) }

\* the loop without its break: the symbol joins every cluster it matches
join_clusters_nobreak(syms, i, clusters, threshold) ==
    LET hits == all_cluster_matches(syms, i, clusters, threshold)
    IN  IF hits = {} THEN Append(clusters, <<i>>)
        ELSE [c \in DOMAIN clusters |->
                IF c \in hits THEN Append(clusters[c], i) ELSE clusters[c]]

\* the body of the for_each closure for symbol i
join_clusters(syms, i, clusters, threshold) ==
    LET c == first_cluster_match(syms, i, clusters, threshold)
    IN  IF c = 0 THEN Append(clusters, <<i>>)
        ELSE [clusters EXCEPT ![c] = Append(@, i)]

RECURSIVE cluster_fold(_, _, _, _, _)
\* symbols.iter().filter(|s| s.insns.len() >= min_len).for_each(...)
cluster_fold(syms, i, clusters, threshold, min_len) ==
    IF i > Len(syms) THEN clusters
    ELSE IF Len(syms[i].opcodes) >= min_len
    THEN cluster_fold(syms, i + 1, join_clusters(syms, i, clusters, threshold),
                      threshold, min_len)
    ELSE cluster_fold(syms, i + 1, clusters, threshold, min_len)

RECURSIVE sort_by_size_desc(_)
\* clusters.sort_by_key(|c| Reverse(c.size())): a stable sort, largest first
sort_by_size_desc(clusters) ==
    IF clusters = <<>> THEN <<>>
    ELSE LET largest == Max({ Len(clusters[c]) : c \in DOMAIN clusters })
             first == Min({ c \in DOMAIN clusters : Len(clusters[c]) = largest })
         IN  <<clusters[first]>> \o
             sort_by_size_desc(SubSeq(clusters, 1, first - 1) \o
                               SubSeq(clusters, first + 1, Len(clusters)))

\* clusters of indices into symbols
get_clusters(syms, threshold, min_len) ==
    sort_by_size_desc(cluster_fold(syms, 1, <<>>, threshold, min_len))

\* the replacement test with a later equal score winning
replaces_best_on_tie(score, best, threshold) ==
    /\ score_gt(score, threshold)
    /\ (best.b = 0 \/ ~score_gt(best.score, score))

\* if score > threshold { if let Some((_, best_score)) = best_match
\* { if score > best_score { replace } } else { replace } }
replaces_best(score, best, threshold) ==
    /\ score_gt(score, threshold)
    /\ (best.b = 0 \/ score_gt(score, best.score))

\* the inner loop of do_compare_binaries for one symbol of bin1: best_match after
\* bin2[1..j] has been visited; 0 is None
RECURSIVE best_match(_, _, _, _, _, _)
best_match(sym, bin2, j, best, threshold, min_len) ==
    IF j > Len(bin2) THEN best
    ELSE IF Len(bin2[j].opcodes) < min_len
    THEN best_match(sym, bin2, j + 1, best, threshold, min_len)
    ELSE LET score == diff_symbols(sym, bin2[j], threshold)
         IN  IF replaces_best(score, best, threshold)
             THEN best_match(sym, bin2, j + 1, [b |-> j, score |-> score], threshold, min_len)
             ELSE best_match(sym, bin2, j + 1, best, threshold, min_len)

RECURSIVE matched_syms(_, _, _, _, _)
\* bin1.symbols.iter().filter(long enough).for_each(push the best match, if any)
matched_syms(bin1, bin2, i, threshold, min_len) ==
    IF i > Len(bin1) THEN <<>>
    ELSE LET best == best_match(bin1[i], bin2, 1, [b |-> 0, score |-> Ratio(0, 1)],
                                threshold, min_len)
             rest == matched_syms(bin1, bin2, i + 1, threshold, min_len)
         IN  IF Len(bin1[i].opcodes) >= min_len /\ best.b # 0
             THEN <<[a |-> i, b |-> best.b, score |-> best.score]>> \o rest
             ELSE rest

\* the symbols of a binary
Binary(raw) == [i \in DOMAIN raw |-> Symbol_new(raw[i])]

\* the cluster command
Cluster(raw, threshold, min_len) ==
    /\ batch.stage = "idle"
    /\ LET syms == Binary(raw)
       IN  batch' = [stage |-> "clustered", symbols |-> syms, threshold |-> threshold,
                     min_len |-> min_len,
                     clusters |-> get_clusters(syms, threshold, min_len)]
    /\ UNCHANGED <<dbVars, mem, diff, hsym, mdb, ingest, objs, loadVars>>

\* the compare command over two binaries
CompareBinaries(raw1, raw2, threshold, min_len) ==
    /\ batch.stage = "idle"
    /\ LET bin1 == Binary(raw1)
           bin2 == Binary(raw2)
       IN  batch' = [stage |-> "compared", bin1 |-> bin1, bin2 |-> bin2,
                     threshold |-> threshold, min_len |-> min_len,
                     matched |-> matched_syms(bin1, bin2, 1, threshold, min_len)]
    /\ UNCHANGED <<dbVars, mem, diff, hsym, mdb, ingest, objs, loadVars>>

\* the command is over
BatchExit ==
    /\ batch.stage # "idle"
    /\ batch' = Idle
    /\ UNCHANGED <<dbVars, mem, diff, hsym, mdb, ingest, objs, loadVars>>

----------------------------------------------------------------------------
(* The match queries: symbols by exact, equivalence or opcode hash *)

\* the hashes (opcode_hash, equiv_hash, exact_hash) of the stored symbols
StoredHashes ==
    {[opcode_hash |-> 1, equiv_hash |-> 1, exact_hash |-> 1],
     [opcode_hash |-> 1, equiv_hash |-> 1, exact_hash |-> 2],
     [opcode_hash |-> 1, equiv_hash |-> 2, exact_hash |-> 3],
     [opcode_hash |-> 2, equiv_hash |-> 3, exact_hash |-> 4]}

\* table sources of the match queries: sources::create takes version_id: Option<i64>
MatchSources == <<[project_id |-> 1, version_id |-> 1], [project_id |-> 1, version_id |-> NULL]>>

Channels == {"exact", "equivalent", "opcode"}

\* the column a channel compares
channel_hash(sym, channel) ==
    CASE channel = "exact" -> sym.exact_hash
      [] channel = "equivalent" -> sym.equiv_hash
      [] OTHER -> sym.opcode_hash

\* the symbols table behind the match queries
MdbSymbols == IF mdb.stage = "idle" THEN <<>> ELSE mdb.symbols

\* symbols::query_by_exact_hash / query_by_equiv_hash / query_by_opcode_hash:
\* symbols INNER JOIN sources INNER JOIN versions INNER JOIN projects
\* WHERE symbols.<channel>_hash = $1 AND NOT symbols.id = $2
query_by_hash(channel, q) ==
    { id \in DOMAIN MdbSymbols :
        /\ MatchSources[MdbSymbols[id].source_id].version_id # NULL
        /\ channel_hash(MdbSymbols[id], channel) = channel_hash(MdbSymbols[q], channel)
        /\ id # q }

\* db_query_symbols_by_exact_hash / _equiv_hash / _opcode_hash of the earlier
\* database crate: symbols INNER JOIN sources INNER JOIN projects
db_query_symbols_by_hash(channel, q) ==
    { id \in DOMAIN MdbSymbols :
        /\ channel_hash(MdbSymbols[id], channel) = channel_hash(MdbSymbols[q], channel)
        /\ id # q }

\* symbols::create: one more row of the symbols table
MatchCreateSymbol(source_id, hashes) ==
    /\ Len(MdbSymbols) < MaxMatchSymbols
    /\ mdb' = [stage |-> "stored",
               symbols |-> Append(MdbSymbols,
                   [source_id |-> source_id, opcode_hash |-> hashes.opcode_hash,
                    equiv_hash |-> hashes.equiv_hash, exact_hash |-> hashes.exact_hash]),
               answer |-> [by |-> "none"]]
    /\ UNCHANGED <<dbVars, mem, diff, batch, hsym, ingest, objs, loadVars>>

\* the match command and the HTTP match handler: one query on one channel
MatchQuery(channel, q) ==
    /\ mdb.stage = "stored"
    /\ mdb.answer.by = "none"
    /\ q \in DOMAIN mdb.symbols
    /\ mdb' = [mdb EXCEPT !.answer = [by |-> "symbols", channel |-> channel, q |-> q,
                                      rows |-> query_by_hash(channel, q)]]
    /\ UNCHANGED <<dbVars, mem, diff, batch, hsym, ingest, objs, loadVars>>

\* the match command of the earlier command line
DbMatchQuery(channel, q) ==
    /\ mdb.stage = "stored"
    /\ mdb.answer.by = "none"
    /\ q \in DOMAIN mdb.symbols
    /\ mdb' = [mdb EXCEPT !.answer = [by |-> "db", channel |-> channel, q |-> q,
                                      rows |-> db_query_symbols_by_hash(channel, q)]]
    /\ UNCHANGED <<dbVars, mem, diff, batch, hsym, ingest, objs, loadVars>>

\* the answer has been printed or sent
MatchDone ==
    /\ mdb.stage = "stored"
    /\ mdb.answer.by # "none"
    /\ mdb' = [mdb EXCEPT !.answer = [by |-> "none"]]
    /\ UNCHANGED <<dbVars, mem, diff, batch, hsym, ingest, objs, loadVars>>

----------------------------------------------------------------------------
(* The three hashes of a symbol: Symbol::new, get_equivalence_hash *)

\* size of the region a jump stays in (the bits of a jump target that come from the
\* address of the instruction), scaled down
SegmentSize == 16

\* instruction words of the hashed symbols: leading byte 1 is an instruction with a
\* register and an immediate operand, leading byte 2 a jump to a label
HashWords == {<<1, 0, 0, 0>>, <<1, 0, 0, 7>>, <<1, 1, 0, 0>>, <<2, 0, 0, 1>>}

\* vram of the hashed symbols: two addresses of one region and one of the next
HashVrams == {0, 8, 16}

\* relocation identities (target_symbol, addend, flags)
RelocIdentities ==
    {[target_symbol |-> 1, addend |-> 0, flags |-> 5],
     [target_symbol |-> 2, addend |-> 0, flags |-> 5]}

\* Platform::arch
arch(platform) == IF platform = "GcWii" THEN "Ppc" ELSE "Mips"

\* the valued operands the MIPS decoder yields for a word decoded at cur_vram: an
\* immediate instruction, a jump (its label takes its upper bits from the address of
\* its delay slot), a load or store with offset(base), a branch
mips_valued_operands(chunk, cur_vram) ==
    CASE chunk[1] = 1 -> <<<<"core_rt", chunk[2]>>, <<"core_imm_i16", chunk[4]>>>>
      [] chunk[1] = 2 ->
            <<<<"core_label", ((cur_vram + 4) \div SegmentSize) * SegmentSize + chunk[4]>>>>
      [] chunk[1] = 3 -> <<<<"core_rt", chunk[2]>>, <<"core_imm_rs", chunk[4], chunk[3]>>>>
      [] chunk[1] = 4 ->
            <<<<"core_rs", chunk[2]>>,
              <<"core_branch_target_label", cur_vram + 4 + chunk[4] * insn_length>>>>
      [] OTHER -> <<>>

\* instruction.basic().args of the PowerPC decoder for the same four shapes
ppc_args(chunk) ==
    CASE chunk[1] = 1 -> <<<<"GPR", chunk[2]>>, <<"Simm", chunk[4]>>>>
      [] chunk[1] = 2 -> <<<<"BranchDest", chunk[4]>>>>
      [] chunk[1] = 3 -> <<<<"GPR", chunk[2]>>, <<"Offset", chunk[4]>>, <<"GPR", chunk[3]>>>>
      [] chunk[1] = 4 -> <<<<"CRBit", chunk[2]>>, <<"BranchDest", chunk[4]>>>>
      [] OTHER -> <<>>

valued_operands(chunk, cur_vram, platform) ==
    IF arch(platform) = "Mips" THEN mips_valued_operands(chunk, cur_vram) ELSE ppc_args(chunk)

\* the operand is hashed as it is whether or not a relocation was hashed for the
\* instruction
hashed_with_reloc(vo) ==
    vo[1] \notin {"core_label", "core_imm_i16", "core_imm_u16", "core_imm_rs",
                  "Simm", "Uimm", "Offset", "BranchDest", "OpaqueU"}

\* what one operand feeds to the hasher, every immediate hashed as it is
hash_operand_unsuppressed(vo, hashed_reloc) == <<vo>>

\* what one operand feeds to the hasher
hash_operand(vo, hashed_reloc) ==
    IF ~hashed_reloc \/ hashed_with_reloc(vo) THEN <<vo>>
    ELSE IF vo[1] = "core_imm_rs" THEN <<<<"gpr", vo[3]>>>>
    ELSE <<>>

RECURSIVE operand_stream(_, _)
\* the hasher's input for the operands of one instruction
operand_stream(operands, hashed_reloc) ==
    IF operands = <<>> THEN <<>>
    ELSE hash_operand(Head(operands), hashed_reloc)
         \o operand_stream(Tail(operands), hashed_reloc)

\* position of x in the sequence s, 0 if absent
IndexOf(s, x) ==
    IF \E k \in DOMAIN s : s[k] = x THEN Min({ k \in DOMAIN s : s[k] = x }) ELSE 0

\* the relocation id with the raw identity hashed in place of the dense id
raw_reloc_id(reloc_ids, reloc) ==
    reloc.target_symbol

\* *reloc_ids.entry((target_symbol, addend, flags)).or_insert(reloc_ids.len())
dense_reloc_id(reloc_ids, reloc) ==
    IF IndexOf(reloc_ids, reloc) # 0 THEN IndexOf(reloc_ids, reloc) - 1 ELSE Len(reloc_ids)

RECURSIVE equivalence_stream(_, _, _, _, _, _)
\* the loop of get_equivalence_hash from chunk i on: everything fed to the hasher
equivalence_stream(bytes, vram, platform, relocations, i, reloc_ids) ==
    IF i > Len(bytes) \div insn_length THEN <<>>
    ELSE LET chunk == SubSeq(bytes, (i - 1) * insn_length + 1, i * insn_length)
             cur_vram == vram + (i - 1) * insn_length
             hashed_reloc == cur_vram \in DOMAIN relocations
             reloc == relocations[cur_vram]
             ids == IF hashed_reloc /\ IndexOf(reloc_ids, reloc) = 0
                    THEN Append(reloc_ids, reloc) ELSE reloc_ids
         IN  (IF hashed_reloc THEN <<<<"reloc", dense_reloc_id(reloc_ids, reloc)>>>> ELSE <<>>)
             \o <<<<"opcode", instruction_opcode(chunk)>>>>
             \o operand_stream(valued_operands(chunk, cur_vram, platform), hashed_reloc)
             \o equivalence_stream(bytes, vram, platform, relocations, i + 1, ids)

\* hasher.finish() identifies what was hashed (hash collisions are excluded)
get_equivalence_hash(bytes, vram, platform, relocations) ==
    equivalence_stream(bytes, vram, platform, relocations, 1, <<>>)

\* Symbol::new with its three hashes
symbol_hashes(def) ==
    LET sym == Symbol_new(def.bytes)
    IN  [bytes |-> sym.bytes, opcodes |-> sym.opcodes, vram |-> def.vram,
         platform |-> def.platform, relocations |-> def.relocations,
         exact_hash |-> <<"bytes", sym.bytes>>,
         equiv_hash |-> get_equivalence_hash(sym.bytes, def.vram, def.platform,
                                             def.relocations),
         opcode_hash |-> <<"opcodes", sym.opcodes>>]

\* the raw bytes of n instruction words
HashBytes(n) ==
    LET RECURSIVE flat(_)
        flat(ws) == IF ws = <<>> THEN <<>> ELSE Head(ws) \o flat(Tail(ws))
    IN  { flat(ws) : ws \in SeqsUpTo(HashWords, n) }

\* the relocation maps of a symbol: some of its instruction addresses, each with an identity
RelocMaps(bytes, vram) ==
    LET addrs == { vram + (i - 1) * insn_length : i \in 1..(Len(bytes) \div insn_length) }
    IN  UNION { [A -> RelocIdentities] : A \in SUBSET addrs }

\* a symbol is read from an object file or from an image and its mapfile
HashSymbol(bytes, vram, platform, relocations) ==
    /\ hsym.stage = "idle"
    /\ LET def == [bytes |-> bytes, vram |-> vram, platform |-> platform,
                   relocations |-> relocations]
       IN  hsym' = [stage |-> "one", def |-> def, a |-> symbol_hashes(def)]
    /\ UNCHANGED <<dbVars, mem, diff, batch, mdb, ingest, objs, loadVars>>

\* the same function is read again at another address, its relocations moved along
HashRelocated(vram) ==
    /\ hsym.stage = "one"
    /\ vram # hsym.def.vram
    /\ LET old == hsym.def.relocations
           moved == [x \in { y + vram - hsym.def.vram : y \in DOMAIN old } |->
                        old[x - vram + hsym.def.vram]]
       IN  hsym' = [stage |-> "pair", how |-> "relocated", def |-> hsym.def, a |-> hsym.a,
                    b |-> symbol_hashes([hsym.def EXCEPT !.vram = vram,
                                                         !.relocations = moved])]
    /\ UNCHANGED <<dbVars, mem, diff, batch, mdb, ingest, objs, loadVars>>

\* the same function is read again with its relocation targets renamed by rename
HashRenamed(rename) ==
    /\ hsym.stage = "one"
    /\ LET old == hsym.def.relocations
           renamed == [x \in DOMAIN old |->
                          [old[x] EXCEPT !.target_symbol = rename[old[x].target_symbol]]]
       IN  hsym' = [stage |-> "pair", how |-> "renamed", def |-> hsym.def, a |-> hsym.a,
                    b |-> symbol_hashes([hsym.def EXCEPT !.relocations = renamed])]
    /\ UNCHANGED <<dbVars, mem, diff, batch, mdb, ingest, objs, loadVars>>

\* a function that differs from the first in one instruction word
HashEdited(i, word) ==
    /\ hsym.stage = "one"
    /\ i \in 1..(Len(hsym.def.bytes) \div insn_length)
    /\ LET old == hsym.def.bytes
           edited == SubSeq(old, 1, (i - 1) * insn_length) \o word
                     \o SubSeq(old, i * insn_length + 1, Len(old))
       IN  hsym' = [stage |-> "pair", how |-> "edited", def |-> hsym.def, a |-> hsym.a,
                    b |-> symbol_hashes([hsym.def EXCEPT !.bytes = edited])]
    /\ UNCHANGED <<dbVars, mem, diff, batch, mdb, ingest, objs, loadVars>>

----------------------------------------------------------------------------
(* DbCommands::AddProject: the project row, then one transaction for the rest *)

\* a row written by AddProject: its table, and the version and object file it is for
Row(table, v, o) == [table |-> table, v |-> v, o |-> o]

ProjectRow == Row("projects", 0, 0)

\* the tables whose rows belong to exactly one project
ProjectTables == {"projects", "versions", "sources", "symbols", "symbol_window_hashes"}

\* where the handler goes after the object file o of version v is done
next_obj_file(st) ==
    IF st.o < st.nobj THEN [st EXCEPT !.pc = "objects_create", !.o = st.o + 1]
    ELSE IF st.v < st.nver THEN [st EXCEPT !.pc = "create_version", !.v = st.v + 1, !.o = 0]
    ELSE [st EXCEPT !.pc = "commit"]

\* the command starts: the configuration has been read
AddProject(nver) ==
    /\ ingest.stage = "idle"
    /\ ingest' = [stage |-> "running", pc |-> "create_project", nver |-> nver,
                  nobj |-> 0, v |-> 0, o |-> 0,
                  visible |-> {}, pending |-> {}, blobs |-> {}]
    /\ UNCHANGED <<dbVars, mem, diff, batch, hsym, mdb, objs, loadVars>>

\* projects::create on a pool connection: the statement commits by itself
create_project_autocommit(st) == [st EXCEPT !.pc = "begin", !.visible = @ \cup {ProjectRow}]

IngestCreateProject ==
    /\ ingest.stage = "running"
    /\ ingest.pc = "create_project"
    /\ ingest' = create_project_autocommit(ingest)
    /\ UNCHANGED <<dbVars, mem, diff, batch, hsym, mdb, objs, loadVars>>

\* pool.begin()
IngestBegin ==
    /\ ingest.stage = "running"
    /\ ingest.pc = "begin"
    /\ ingest' = IF ingest.nver = 0 THEN [ingest EXCEPT !.pc = "commit"]
                 ELSE [ingest EXCEPT !.pc = "create_version", !.v = 1]
    /\ UNCHANGED <<dbVars, mem, diff, batch, hsym, mdb, objs, loadVars>>

\* create_version in the transaction, then the glob over the build directory
IngestCreateVersion(nobj) ==
    /\ ingest.stage = "running"
    /\ ingest.pc = "create_version"
    /\ LET st == [ingest EXCEPT !.pending = @ \cup {Row("versions", ingest.v, 0)},
                                !.nobj = nobj]
       IN  ingest' = next_obj_file(st)
    /\ UNCHANGED <<dbVars, mem, diff, batch, hsym, mdb, objs, loadVars>>

\* fs::read of the object file and objects::create: a row in the transaction and
\* the blob file on disk
IngestObjectsCreate ==
    /\ ingest.stage = "running"
    /\ ingest.pc = "objects_create"
    /\ ingest' = [ingest EXCEPT !.pc = "create_source",
                                !.pending = @ \cup {Row("objects", ingest.v, ingest.o)},
                                !.blobs = @ \cup {<<ingest.v, ingest.o>>}]
    /\ UNCHANGED <<dbVars, mem, diff, batch, hsym, mdb, objs, loadVars>>

IngestCreateSource ==
    /\ ingest.stage = "running"
    /\ ingest.pc = "create_source"
    /\ ingest' = [ingest EXCEPT !.pc = "read_elf",
                                !.pending = @ \cup {Row("sources", ingest.v, ingest.o)}]
    /\ UNCHANGED <<dbVars, mem, diff, batch, hsym, mdb, objs, loadVars>>

\* read_elf: the object file has symbols or has none
IngestReadElf(has_symbols) ==
    /\ ingest.stage = "running"
    /\ ingest.pc = "read_elf"
    /\ ingest' = IF has_symbols THEN [ingest EXCEPT !.pc = "create_many"]
                 ELSE next_obj_file(ingest)
    /\ UNCHANGED <<dbVars, mem, diff, batch, hsym, mdb, objs, loadVars>>

IngestCreateMany ==
    /\ ingest.stage = "running"
    /\ ingest.pc = "create_many"
    /\ ingest' = [ingest EXCEPT !.pc = "window_hashes",
                                !.pending = @ \cup {Row("symbols", ingest.v, ingest.o)}]
    /\ UNCHANGED <<dbVars, mem, diff, batch, hsym, mdb, objs, loadVars>>

\* the loop of create_symbol_window_hashes over the symbols of the object file
IngestWindowHashes ==
    /\ ingest.stage = "running"
    /\ ingest.pc = "window_hashes"
    /\ LET st == [ingest EXCEPT
                    !.pending = @ \cup {Row("symbol_window_hashes", ingest.v, ingest.o)}]
       IN  ingest' = next_obj_file(st)
    /\ UNCHANGED <<dbVars, mem, diff, batch, hsym, mdb, objs, loadVars>>

\* tx.commit() after the loop over config.versions
IngestCommit ==
    /\ ingest.stage = "running"
    /\ ingest.pc = "commit"
    /\ ingest' = [ingest EXCEPT !.stage = "done", !.visible = @ \cup ingest.pending,
                                !.pending = {}]
    /\ UNCHANGED <<dbVars, mem, diff, batch, hsym, mdb, objs, loadVars>>

\* the current step returns an error (or panics): the handler returns, and the
\* transaction, if one is open, is dropped and rolls back
IngestFail ==
    /\ ingest.stage = "running"
    /\ ingest' = [ingest EXCEPT !.stage = "failed", !.pending = {}]
    /\ UNCHANGED <<dbVars, mem, diff, batch, hsym, mdb, objs, loadVars>>

IngestExit ==
    /\ ingest.stage \in {"done", "failed"}
    /\ ingest' = Idle
    /\ UNCHANGED <<dbVars, mem, diff, batch, hsym, mdb, objs, loadVars>>

----------------------------------------------------------------------------
(* objects::create: the objects table and the blob store under BIN_PATH *)

\* the contents of the object files given to objects::create
Blobs == {<<1, 1>>, <<2, 2>>}

\* the tasks that call objects::create, each on a transaction of its own
Tasks == {1, 2}

\* blake3::hash(bytes).to_hex(): distinct contents have distinct hashes
blake3(bytes) == <<"blake3", bytes>>

\* $BIN_PATH/<hash>.bin
target_path(bytes) == <<"BIN_PATH", blake3(bytes), ".bin">>

BlobPaths == { target_path(b) : b \in Blobs }

\* a path with no file
NoFile == [exists |-> FALSE, data |-> <<>>]

\* a task with no transaction open
TaskIdle == [pc |-> "idle", bytes |-> <<>>, id |-> NULL, off |-> 0, calls |-> 0, txs |-> 0]

\* the rows of objects that a statement of task t sees: the committed ones and
\* the ones of its own transaction
visible_rows(st, t) == { r \in st.rows : r.owner \in {0, t} }

\* the unique index on objects.hash makes the insert wait while another
\* transaction holds an uncommitted row with the same hash
insert_waits_never(st, t, hash) == FALSE

insert_waits(st, t, hash) == \E r \in st.rows : r.hash = hash /\ r.owner \notin {0, t}

\* !target_path.exists()
path_missing_always(st, path) == TRUE

path_missing(st, path) == ~st.files[path].exists

\* one write of write_all at offset off of the task's own file handle
write_at(data, off, byte) ==
    [k \in 1..Max({Len(data), off + 1}) |->
        IF k = off + 1 THEN byte ELSE IF k <= Len(data) THEN data[k] ELSE 0]

\* the objects table holds an older row, or none; no blob is under BIN_PATH yet
ObjsInit(stale) ==
    [stage |-> "run",
     rows |-> IF stale THEN {[id |-> 1, hash |-> blake3(<<1, 1>>), owner |-> 0]} ELSE {},
     next_id |-> IF stale THEN 2 ELSE 1,
     files |-> [p \in BlobPaths |-> NoFile],
     tasks |-> [t \in Tasks |-> TaskIdle],
     returned |-> [b \in Blobs |-> {}],
     rewritten |-> FALSE]

\* pool.begin()
ObjBegin(t) ==
    /\ objs.stage = "run"
    /\ objs.tasks[t].pc = "idle"
    /\ objs.tasks[t].txs < MaxTx
    /\ objs' = [objs EXCEPT !.tasks[t].pc = "in_tx", !.tasks[t].calls = 0,
                            !.tasks[t].txs = @ + 1]
    /\ UNCHANGED <<dbVars, mem, diff, batch, hsym, mdb, ingest, loadVars>>

\* objects::create(&mut tx, bytes) is called
ObjCreate(t, bytes) ==
    /\ objs.stage = "run"
    /\ objs.tasks[t].pc = "in_tx"
    /\ objs.tasks[t].calls < MaxCallsPerTx
    /\ objs' = [objs EXCEPT !.tasks[t].pc = "insert", !.tasks[t].bytes = bytes,
                            !.tasks[t].id = NULL, !.tasks[t].off = 0]
    /\ UNCHANGED <<dbVars, mem, diff, batch, hsym, mdb, ingest, loadVars>>

\* INSERT INTO objects (hash, local_path) ... ON CONFLICT (hash) DO NOTHING; the id
\* sequence advances even when nothing is inserted
ObjInsert(t) ==
    /\ objs.stage = "run"
    /\ objs.tasks[t].pc = "insert"
    /\ LET hash == blake3(objs.tasks[t].bytes)
       IN  /\ ~insert_waits(objs, t, hash)
           /\ objs' = [objs EXCEPT
                        !.rows = IF \E r \in visible_rows(objs, t) : r.hash = hash
                                 THEN @
                                 ELSE @ \cup {[id |-> objs.next_id, hash |-> hash, owner |-> t]},
                        !.next_id = @ + 1,
                        !.tasks[t].pc = "select"]
    /\ UNCHANGED <<dbVars, mem, diff, batch, hsym, mdb, ingest, loadVars>>

\* SELECT id FROM objects WHERE hash = $1
ObjSelect(t) ==
    /\ objs.stage = "run"
    /\ objs.tasks[t].pc = "select"
    /\ LET hash == blake3(objs.tasks[t].bytes)
           found == { r \in visible_rows(objs, t) : r.hash = hash }
       IN  objs' = IF found = {}
                   THEN [objs EXCEPT !.tasks[t].pc = "error"]
                   ELSE [objs EXCEPT !.tasks[t].pc = "exists",
                                     !.tasks[t].id = (CHOOSE r \in found : TRUE).id]
    /\ UNCHANGED <<dbVars, mem, diff, batch, hsym, mdb, ingest, loadVars>>

\* if !target_path.exists()
ObjExists(t) ==
    /\ objs.stage = "run"
    /\ objs.tasks[t].pc = "exists"
    /\ objs' = [objs EXCEPT !.tasks[t].pc =
                    IF path_missing(objs, target_path(objs.tasks[t].bytes))
                    THEN "file_create" ELSE "return"]
    /\ UNCHANGED <<dbVars, mem, diff, batch, hsym, mdb, ingest, loadVars>>

\* fs::create_dir_all and File::create: the file exists and is empty
ObjFileCreate(t) ==
    /\ objs.stage = "run"
    /\ objs.tasks[t].pc = "file_create"
    /\ LET path == target_path(objs.tasks[t].bytes)
       IN  objs' = [objs EXCEPT !.files[path] = [exists |-> TRUE, data |-> <<>>],
                                !.rewritten = @ \/ objs.files[path].exists,
                                !.tasks[t].off = 0,
                                !.tasks[t].pc = IF objs.tasks[t].bytes = <<>>
                                                THEN "return" ELSE "write_all"]
    /\ UNCHANGED <<dbVars, mem, diff, batch, hsym, mdb, ingest, loadVars>>

\* file.write_all(bytes), one write at a time
ObjWrite(t) ==
    /\ objs.stage = "run"
    /\ objs.tasks[t].pc = "write_all"
    /\ LET me == objs.tasks[t]
           path == target_path(me.bytes)
       IN  objs' = [objs EXCEPT
                        !.files[path].data = write_at(@, me.off, me.bytes[me.off + 1]),
                        !.tasks[t].off = @ + 1,
                        !.tasks[t].pc = IF me.off + 1 = Len(me.bytes)
                                        THEN "return" ELSE "write_all"]
    /\ UNCHANGED <<dbVars, mem, diff, batch, hsym, mdb, ingest, loadVars>>

\* Ok(r.id)
ObjReturn(t) ==
    /\ objs.stage = "run"
    /\ objs.tasks[t].pc = "return"
    /\ objs' = [objs EXCEPT !.returned[objs.tasks[t].bytes] = @ \cup {objs.tasks[t].id},
                            !.tasks[t].calls = @ + 1,
                            !.tasks[t].pc = "in_tx"]
    /\ UNCHANGED <<dbVars, mem, diff, batch, hsym, mdb, ingest, loadVars>>

\* tx.commit() of the caller
ObjCommit(t) ==
    /\ objs.stage = "run"
    /\ objs.tasks[t].pc = "in_tx"
    /\ objs.tasks[t].calls > 0
    /\ objs' = [objs EXCEPT
                    !.rows = { IF r.owner = t THEN [r EXCEPT !.owner = 0] ELSE r : r \in @ },
                    !.tasks[t].pc = "idle"]
    /\ UNCHANGED <<dbVars, mem, diff, batch, hsym, mdb, ingest, loadVars>>

----------------------------------------------------------------------------
(* read_elf and read_map: the bytes of each symbol are cut out of the file *)

\* the data of the text section, or the rom image: one or two instruction words
ReadData == {<<1, 0, 0, 0>>, <<1, 0, 0, 0, 2, 0, 0, 7>>}

\* the address (or vrom) of a symbol, relative to the start of the data
ReadStarts == {0, 4, 8}

\* the size of a symbol
ReadSizes == {4, 8}

\* the symbols of the file, in file order
ReadSymbols == SeqsUpTo([start : ReadStarts, size : ReadSizes], MaxReadSymbols)

\* section.data_range(address, size): None when the range leaves the data
data_range(data, start, size) ==
    IF start + size <= Len(data)
    THEN [some |-> TRUE, data |-> SubSeq(data, start + 1, start + size)]
    ELSE [some |-> FALSE, data |-> <<>>]

\* &rom_bytes[start..end]: the slice, or a panic when end is past the image
rom_slice(rom_bytes, start, end) ==
    IF end <= Len(rom_bytes)
    THEN [panic |-> FALSE, data |-> SubSeq(rom_bytes, start + 1, end)]
    ELSE [panic |-> TRUE, data |-> <<>>]

RECURSIVE read_elf(_, _)
\* filter_map over the symbols: those with a data range become Symbols
read_elf(data, syms) ==
    IF syms = <<>> THEN <<>>
    ELSE LET range == data_range(data, Head(syms).start, Head(syms).size)
         IN  (IF range.some
              THEN <<[def |-> Head(syms), sym |-> Symbol_new(range.data)]>>
              ELSE <<>>)
             \o read_elf(data, Tail(syms))

RECURSIVE read_map(_, _, _)
\* map over the symbols: each is sliced out of the rom; acc holds the symbols
\* built before the current one
read_map(rom_bytes, syms, acc) ==
    IF syms = <<>> THEN [panic |-> FALSE, ret |-> acc]
    ELSE LET start == Head(syms).start
             end == start + Head(syms).size
             raw == rom_slice(rom_bytes, start, end)
         IN  IF raw.panic THEN [panic |-> TRUE, ret |-> <<>>]
             ELSE read_map(rom_bytes, Tail(syms),
                           Append(acc, [def |-> Head(syms), sym |-> Symbol_new(raw.data)]))

ReadElf(data, syms) ==
    /\ rd.stage = "idle"
    /\ rd' = [stage |-> "done", entry |-> "read_elf", data |-> data, syms |-> syms,
              panic |-> FALSE, ret |-> read_elf(data, syms)]
    /\ UNCHANGED <<dbVars, mem, diff, batch, hsym, mdb, ingest, objs, plat, rel, clean>>

ReadMap(rom_bytes, syms) ==
    /\ rd.stage = "idle"
    /\ LET res == read_map(rom_bytes, syms, <<>>)
       IN  rd' = [stage |-> "done", entry |-> "read_map", data |-> rom_bytes, syms |-> syms,
                  panic |-> res.panic, ret |-> res.ret]
    /\ UNCHANGED <<dbVars, mem, diff, batch, hsym, mdb, ingest, objs, plat, rel, clean>>

ReadExit ==
    /\ rd.stage = "done"
    /\ rd' = Idle
    /\ UNCHANGED <<dbVars, mem, diff, batch, hsym, mdb, ingest, objs, plat, rel, clean>>

----------------------------------------------------------------------------
(* Platform lookup at the ingest boundary *)

\* platform names found in configurations and in decomp.me scratches
PlatformNames ==
    {"n64", "psx", "ps2", "gc_wii", "psp", "N64", "Gc_Wii", "ps1", "switch", "saturn", ""}

\* name.to_lowercase()
to_lowercase(name) ==
    CASE name = "N64" -> "n64"
      [] name = "Gc_Wii" -> "gc_wii"
      [] OTHER -> name

\* Option::None
None == "None"

\* Platform::from_name
from_name(name) ==
    LET lower == to_lowercase(name)
    IN  CASE lower = "n64" -> "N64"
          [] lower = "psx" -> "Psx"
          [] lower = "ps2" -> "Ps2"
          [] lower = "gc_wii" -> "GcWii"
          [] lower = "psp" -> "Psp"
          [] OTHER -> None

\* Platform::from_decompme_name
from_decompme_name(name) ==
    CASE name = "n64" -> "N64"
      [] name = "ps1" -> "Psx"
      [] name = "ps2" -> "Ps2"
      [] name = "psp" -> "Psp"
      [] name = "gc_wii" -> "GcWii"
      [] OTHER -> None

supported_platforms == {"N64", "Psx", "Ps2", "Psp", "GcWii"}

\* Option::unwrap, and unwrap_or_else(|| panic!(..)): the value, or a panic on None
unwrap(option) == [panic |-> option = None, value |-> option]

\* DbCommands::AddProject: Platform::from_name(&config.platform).unwrap()
PlatAddProject(name) ==
    /\ plat.stage = "idle"
    /\ LET platform == unwrap(from_name(name))
       IN  plat' = [stage |-> "done", command |-> "AddProject", names |-> <<name>>,
                    panic |-> platform.panic, error |-> FALSE,
                    platforms |-> IF platform.panic THEN <<>> ELSE <<platform.value>>]
    /\ UNCHANGED <<dbVars, mem, diff, batch, hsym, mdb, ingest, objs, rd, rel, clean>>

\* collect_symbols: the platform lookup with unwrap_or_else(|| panic!(..))
PlatCollectSymbols(name) ==
    /\ plat.stage = "idle"
    /\ LET platform == unwrap(from_name(name))
       IN  plat' = [stage |-> "done", command |-> "collect_symbols", names |-> <<name>>,
                    panic |-> platform.panic, error |-> FALSE,
                    platforms |-> IF platform.panic THEN <<>> ELSE <<platform.value>>]
    /\ UNCHANGED <<dbVars, mem, diff, batch, hsym, mdb, ingest, objs, rd, rel, clean>>

\* DbCommands::ImportDecompme: scratches of unsupported platforms are filtered
\* out, then the platform of each remaining scratch is unwrapped
PlatImportDecompme(names) ==
    /\ plat.stage = "idle"
    /\ LET scratches == SelectSeq(names, LAMBDA n : from_decompme_name(n) \in supported_platforms)
           platforms == [k \in DOMAIN scratches |-> unwrap(from_decompme_name(scratches[k]))]
           panics == \E k \in DOMAIN platforms : platforms[k].panic
       IN  plat' = [stage |-> "done", command |-> "ImportDecompme", names |-> names,
                    panic |-> panics, error |-> FALSE,
                    platforms |-> IF panics THEN <<>>
                                  ELSE [k \in DOMAIN platforms |-> platforms[k].value]]
    /\ UNCHANGED <<dbVars, mem, diff, batch, hsym, mdb, ingest, objs, rd, rel, clean>>

PlatExit ==
    /\ plat.stage = "done"
    /\ plat' = Idle
    /\ UNCHANGED <<dbVars, mem, diff, batch, hsym, mdb, ingest, objs, rd, rel, clean>>

----------------------------------------------------------------------------
(* Instructions of every operand shape, for the operand rules of the hash *)

\* immediate instructions, jumps, loads with offset(base) and a branch; within a
\* shape the words differ in one register or in the immediate only
OperandWords ==
    {<<1, 0, 0, 0>>, <<1, 0, 0, 7>>, <<1, 1, 0, 0>>,
     <<2, 0, 0, 1>>, <<2, 0, 0, 2>>,
     <<3, 0, 1, 0>>, <<3, 0, 1, 7>>, <<3, 0, 2, 0>>,
     <<4, 0, 0, 1>>}

\* the platforms whose decoders are modelled: a MIPS one and the PowerPC one
OperandPlatforms == {"N64", "GcWii"}

\* relocations of one identity at some of the instruction addresses of a symbol
OperandRelocMaps(bytes, vram) ==
    { m \in RelocMaps(bytes, vram) :
        \A x \in DOMAIN m : m[x] = [target_symbol |-> 1, addend |-> 0, flags |-> 5] }

\* the code of a symbol of at most n such instructions
OperandBytes(n) ==
    LET RECURSIVE flat(_)
        flat(ws) == IF ws = <<>> THEN <<>> ELSE Head(ws) \o flat(Tail(ws))
    IN  { flat(ws) : ws \in SeqsUpTo(OperandWords, n) }

----------------------------------------------------------------------------
(* get_reloc_data: the relocations of one MIPS section, HI16 and LO16 paired *)

\* `as i16` of an integer
to_i16(x) == LET m == x % 65536 IN IF m >= 32768 THEN m - 65536 ELSE m

\* the exact sum of an i32 and an i16, written q * 2^16 + r with r in 0 .. 2^16 - 1
wide_sum(a, b) ==
    [q |-> (a \div 65536) + (((a % 65536) + b) \div 65536),
     r |-> ((a % 65536) + b) % 65536]

\* the number fits an i32
InI32(w) == w.q >= -32768 /\ w.q <= 32767

\* the number wrapped to an i32
to_i32(w) == to_i16(w.q) * 65536 + w.r

\* a relocation of the section together with the low 16 bits of the instruction word
\* at its address; explicit_addend is reloc.addend()
RelocSite(r_type, implicit, target, halfword) ==
    [r_type |-> r_type, has_implicit_addend |-> implicit, target |-> target,
     explicit_addend |-> 0, halfword |-> halfword]

RelocSitePool ==
    {RelocSite("R_MIPS_HI16", TRUE, 1, 1), RelocSite("R_MIPS_HI16", TRUE, 2, 32768),
     RelocSite("R_MIPS_LO16", TRUE, 1, 4), RelocSite("R_MIPS_LO16", TRUE, 1, 32768),
     RelocSite("R_MIPS_LO16", TRUE, 2, 65535),
     RelocSite("R_MIPS_26", TRUE, 2, 0), RelocSite("R_MIPS_32", TRUE, 1, 0),
     RelocSite("R_MIPS_32", FALSE, 1, 0)}

\* obj_section.relocations(): one relocation per instruction, in address order
RelocAddr(i) == (i - 1) * insn_length

\* ((read_u32(code) & 0x0000FFFF) << 16) as i32
hi16_addend(halfword) == to_i16(halfword) * 65536

\* (read_u32(code) & 0x0000FFFF) as i16 as i32
lo16_addend(halfword) == to_i16(halfword)

\* get_reloc_target on a symbol target
get_reloc_target(reloc, addend) == [target_symbol |-> reloc.target, addend |-> addend]

\* BTreeMap::insert
map_insert(m, k, v) == [x \in DOMAIN m \cup {k} |-> IF x = k THEN v ELSE m[x]]

\* the locals of the loop over one section: last_hi is <<>> for None and <<addr>>
\* for Some(addr); overflowed records that the i32 sum of a LO16 did not fit
RelocLoopStart ==
    [last_hi |-> <<>>, last_hi_addend |-> 0, section_relocs |-> <<>>,
     panicked |-> FALSE, overflowed |-> FALSE]

\* one pass of the loop body; with overflow checks the sum panics when it does not
\* fit an i32, without them it wraps
reloc_step(st, addr, reloc, overflow_checks) ==
    IF st.panicked \/ ~reloc.has_implicit_addend THEN st
    ELSE CASE reloc.r_type = "R_MIPS_HI16" ->
                [st EXCEPT !.last_hi = <<addr>>,
                           !.last_hi_addend = hi16_addend(reloc.halfword)]
           [] reloc.r_type = "R_MIPS_LO16" ->
                LET sum == wide_sum(st.last_hi_addend, lo16_addend(reloc.halfword))
                    reloc_target == get_reloc_target(reloc, to_i32(sum))
                    with_hi == IF st.last_hi # <<>>
                               THEN map_insert(st.section_relocs, st.last_hi[1],
                                               reloc_target)
                               ELSE st.section_relocs
                IN  IF ~InI32(sum) /\ overflow_checks
                    THEN [st EXCEPT !.panicked = TRUE, !.overflowed = TRUE]
                    ELSE [st EXCEPT !.last_hi = <<>>,
                                    !.section_relocs = map_insert(with_hi, addr, reloc_target),
                                    !.overflowed = st.overflowed \/ ~InI32(sum)]
           [] reloc.r_type = "R_MIPS_26" ->
                [st EXCEPT !.section_relocs =
                    map_insert(st.section_relocs, addr,
                               get_reloc_target(reloc, reloc.explicit_addend))]
           [] OTHER -> [st EXCEPT !.last_hi = <<>>]

RECURSIVE reloc_loop(_, _, _, _)
reloc_loop(relocs, i, st, overflow_checks) ==
    IF i > Len(relocs) THEN st
    ELSE reloc_loop(relocs, i + 1,
                    reloc_step(st, RelocAddr(i), relocs[i], overflow_checks),
                    overflow_checks)

\* get_reloc_data on a file with one MIPS section
get_reloc_data(relocs, overflow_checks) ==
    reloc_loop(relocs, 1, RelocLoopStart, overflow_checks)

GetRelocData(relocs, overflow_checks) ==
    /\ rel.stage = "idle"
    /\ rel' = [stage |-> "done", relocs |-> relocs, overflow_checks |-> overflow_checks,
               out |-> get_reloc_data(relocs, overflow_checks)]
    /\ UNCHANGED <<dbVars, mem, diff, batch, hsym, mdb, ingest, objs, rd, plat, clean>>

RelocExit ==
    /\ rel.stage = "done"
    /\ rel' = Idle
    /\ UNCHANGED <<dbVars, mem, diff, batch, hsym, mdb, ingest, objs, rd, plat, clean>>

----------------------------------------------------------------------------
(* AddProject: the symbols of one object file and their windows *)

\* the opcode vectors of the symbols read from an object file: the short ones and
\* some of the longest
PersistVectors ==
    { v \in SeqsUpTo(Opcodes, MaxLen) :
        Len(v) <= 1 \/ (Len(v) = MaxLen /\ \A i \in 2..Len(v) : v[i] = v[2]) }

\* one chunk of symbols::create with the returned ids replacing those of the
\* earlier chunks
create_chunk_replacing(st, source_id, chunk) ==
    [table |-> st.table \o [i \in 1..Len(chunk) |->
                    [source_id |-> source_id, len |-> Len(chunk[i]),
                     opcode_hash |-> HashOf(chunk[i])]],
     ret |-> [i \in 1..Len(chunk) |-> Len(st.table) + i]]

\* one chunk of symbols::create: INSERT ... SELECT * FROM UNNEST(...) RETURNING id,
\* the ids of the rows pushed to ret in the order of the rows
create_chunk(st, source_id, chunk) ==
    [table |-> st.table \o [i \in 1..Len(chunk) |->
                    [source_id |-> source_id, len |-> Len(chunk[i]),
                     opcode_hash |-> HashOf(chunk[i])]],
     ret |-> st.ret \o [i \in 1..Len(chunk) |-> Len(st.table) + i]]

RECURSIVE create_chunks(_, _, _, _, _)
create_chunks(st, source_id, syms, chunks, c) ==
    IF c > Len(chunks) THEN st
    ELSE create_chunks(create_chunk(st, source_id,
                                    SubSeq(syms, chunks[c].lo, chunks[c].hi)),
                       source_id, syms, chunks, c + 1)

\* symbols::create: the table afterwards and the ids returned
symbols_create(table, source_id, syms) ==
    create_chunks([table |-> table, ret |-> <<>>], source_id, syms,
                  Chunks(Len(syms), ChunkSize), 1)

\* for (symbol, id) in symbols.iter().zip(symbol_ids): the windows of every symbol
\* are inserted under the id zipped with it
zip_window_hashes(syms, symbol_ids, window_size) ==
    UNION { add_symbol_window_hashes(get_opcode_hashes(syms[i], window_size),
                                     symbol_ids[i]) :
            i \in 1..Min({Len(syms), Len(symbol_ids)}) }

\* the part of the AddProject loop that follows read_elf for one object file whose
\* source row is source_id
AddObjectSymbols(source_id, syms) ==
    /\ syms # <<>>
    /\ Len(symbols) + Len(syms) <= MaxPersisted
    /\ source_id \in DOMAIN sources
    /\ \A id \in DOMAIN symbols : symbols[id].source_id # source_id
    /\ LET created == symbols_create(symbols, source_id, syms)
       IN  /\ symbols' = created.table
           /\ windows' = windows \cup zip_window_hashes(syms, created.ret, db_window_size)
    /\ UNCHANGED <<db_window_size, sources, resp, mem, diff, laterVars>>

----------------------------------------------------------------------------
(* DbCommands::CleanBins: blobs under BIN_PATH whose hash has no objects row *)

\* const CHUNK_SIZE: usize = 1000
CleanChunkSize == 1000

\* file_stem of a blob path, and format!("{}/{}.bin", bin_path, hash)
file_stem(path) == path[2]

bin_path_of(hash) == <<"BIN_PATH", hash, ".bin">>

\* objects::query_many on the pool: the hashes among the given ones that have a
\* committed row
query_many(st, hashes) == { r.hash : r \in { x \in st.rows : x.owner = 0 /\ x.hash \in hashes } }

\* the objects table and the blob store before the command runs: a committed object
\* with its blob, and a blob left behind without a row
CleanObjsInit(kept, orphan) ==
    [stage |-> "run",
     rows |-> IF kept THEN {[id |-> 1, hash |-> blake3(<<1, 1>>), owner |-> 0]} ELSE {},
     next_id |-> IF kept THEN 2 ELSE 1,
     files |-> [p \in BlobPaths |->
                    IF kept /\ p = target_path(<<1, 1>>)
                    THEN [exists |-> TRUE, data |-> <<1, 1>>]
                    ELSE IF orphan /\ p = target_path(<<2, 2>>)
                    THEN [exists |-> TRUE, data |-> <<2, 2>>]
                    ELSE NoFile],
     tasks |-> [t \in Tasks |-> TaskIdle],
     returned |-> [b \in Blobs |-> {}],
     rewritten |-> FALSE]

\* glob("{bin_path}/*.bin"): the blobs on disk when the command starts
CleanGlob ==
    /\ clean.stage = "idle"
    /\ objs.stage = "run"
    /\ clean' = [stage |-> "chunk",
                 globbed |-> { file_stem(p) : p \in { q \in BlobPaths : objs.files[q].exists } },
                 bins |-> { file_stem(p) : p \in { q \in BlobPaths : objs.files[q].exists } },
                 to_delete |-> {}, removed |-> {}, deleted_bins |-> 0]
    /\ UNCHANGED <<dbVars, mem, diff, batch, hsym, mdb, ingest, objs, rd, plat, rel>>

\* the next chunk of bins: query_many and the difference on_disk - in_db
CleanQuery(chunk_bins) ==
    /\ clean.stage = "chunk"
    /\ chunk_bins \subseteq clean.bins
    /\ Cardinality(chunk_bins) = Min({CleanChunkSize, Cardinality(clean.bins)})
    /\ chunk_bins # {}
    /\ LET in_db == query_many(objs, chunk_bins)
       IN  clean' = [clean EXCEPT !.stage = "delete",
                                  !.bins = @ \ chunk_bins,
                                  !.to_delete = chunk_bins \ in_db]
    /\ UNCHANGED <<dbVars, mem, diff, batch, hsym, mdb, ingest, objs, rd, plat, rel>>

\* for hash in to_delete: if path.exists() { remove_file(&path) }
CleanDelete(hash) ==
    /\ clean.stage = "delete"
    /\ hash \in clean.to_delete
    /\ LET path == bin_path_of(hash)
       IN  IF objs.files[path].exists
           THEN /\ objs' = [objs EXCEPT !.files[path] = NoFile]
                /\ clean' = [clean EXCEPT !.to_delete = @ \ {hash},
                                          !.removed = @ \cup {hash},
                                          !.deleted_bins = @ + 1]
           ELSE /\ objs' = objs
                /\ clean' = [clean EXCEPT !.to_delete = @ \ {hash}]
    /\ UNCHANGED <<dbVars, mem, diff, batch, hsym, mdb, ingest, rd, plat, rel>>

\* the end of the inner loop: on to the next chunk
CleanNextChunk ==
    /\ clean.stage = "delete"
    /\ clean.to_delete = {}
    /\ clean' = [clean EXCEPT !.stage = "chunk"]
    /\ UNCHANGED <<dbVars, mem, diff, batch, hsym, mdb, ingest, objs, rd, plat, rel>>

\* println!("Removed {} bins", deleted_bins)
CleanDone ==
    /\ clean.stage = "chunk"
    /\ clean.bins = {}
    /\ clean' = [clean EXCEPT !.stage = "done"]
    /\ UNCHANGED <<dbVars, mem, diff, batch, hsym, mdb, ingest, objs, rd, plat, rel>>

----------------------------------------------------------------------------
(* Handlers *)

NoResp ==
    [handler |-> "none", status |-> "none", symbol_id |-> 0, window_size |-> 0,
     queried |-> FALSE, rows |-> <<>>, out |-> <<>>]

Rejected(handler, status, window_size) ==
    [NoResp EXCEPT !.handler = handler, !.status = status, !.window_size = window_size]

\* the guard with the comparison off by one
window_too_small_lax(window_size, dbw) == window_size + 1 < dbw

\* if *window_size < db_window_size / if req.min_length < db_window_size
window_too_small(window_size, dbw) == window_size < dbw

\* symbols::query_by_name and query_by_slug: symbols INNER JOIN sources INNER JOIN versions
SymbolFound(q) ==
    /\ q \in DOMAIN symbols
    /\ sources[symbols[q].source_id].version_id # NULL

\* num_instructions = len_bytes / insn_length
get_num_insns(q) == symbols[q].len

\* SubmatchResults::to_string over SubmatchResults::from_db_hashes: one line per
\* slice, in the order of the rows, "[query_start/match_start] (n insns)"
to_string(rows, window_size) ==
    [i \in DOMAIN rows |->
        [project_id |-> rows[i].project_id, source_id |-> rows[i].source_id,
         symbol_id |-> rows[i].symbol_id, query_start |-> rows[i].query_start,
         match_start |-> rows[i].match_start,
         insns |-> rows[i].length + window_size - 1]]

RECURSIVE StoredLen(_)
\* opcodes of the first n stored symbols
StoredLen(n) == IF n = 0 THEN 0 ELSE StoredLen(n - 1) + symbols[n].len

\* symbols::create and add_symbol_window_hashes for one symbol, as the AddProject
\* loop does for every symbol it read.  Every source holds one symbol, except the
\* last source, which holds all the later ones.
AddSymbol(opcodes) ==
    /\ Len(symbols) < MaxSymbols
    /\ StoredLen(Len(symbols)) + Len(opcodes) <= MaxStored
    /\ LET id == Len(symbols) + 1
           source_id == Min({id, Len(sources)})
       IN  /\ symbols' = Append(symbols, [source_id |-> source_id, len |-> Len(opcodes),
                                          opcode_hash |-> HashOf(opcodes)])
           /\ windows' = windows \cup
                add_symbol_window_hashes(get_opcode_hashes(opcodes, db_window_size), id)
    /\ resp' = NoResp
    /\ UNCHANGED <<db_window_size, sources, mem, diff, laterVars>>

\* cli main: Commands::Db(DbCommands::Submatch { query, window_size })
CliSubmatch(q, window_size) ==
    /\ resp = NoResp
    /\ resp' =
        IF window_too_small(window_size, db_window_size)
        THEN Rejected("cli", "err", window_size)
        ELSE IF ~SymbolFound(q)
        THEN Rejected("cli", "err", window_size)
        ELSE LET rows == db_query_windows_by_symbol_id(q, window_size - db_window_size)
             IN  [handler |-> "cli", status |-> "ok", symbol_id |-> q,
                  window_size |-> window_size, queried |-> TRUE,
                  rows |-> rows, out |-> to_string(rows, window_size)]
    /\ UNCHANGED <<db_window_size, sources, symbols, windows, mem, diff, laterVars>>

\* cli db: handle_db_command(DbCommands::Submatch { query, window_size })
CliDbSubmatch(q, window_size) ==
    /\ resp = NoResp
    /\ resp' =
        IF window_too_small(window_size, db_window_size)
        THEN Rejected("cli_db", "err", window_size)
        ELSE IF ~SymbolFound(q)
        THEN Rejected("cli_db", "err", window_size)
        ELSE LET res == query_windows_by_symbol_id(q, 0, get_num_insns(q), window_size,
                                                   db_window_size, CliPageLimit, 0)
             IN  [handler |-> "cli_db", status |-> "ok", symbol_id |-> q,
                  window_size |-> window_size, queried |-> TRUE,
                  rows |-> res.windows, out |-> to_string(res.windows, window_size)]
    /\ UNCHANGED <<db_window_size, sources, symbols, windows, mem, diff, laterVars>>

\* api: get_symbol_submatches(QueryWindowsRequest { slug, min_length, page, size })
ApiSubmatch(q, min_length, page, size) ==
    /\ resp = NoResp
    /\ resp' =
        IF size <= 0 THEN Rejected("api", "400", min_length)
        ELSE IF page < 0 THEN Rejected("api", "400", min_length)
        ELSE IF size > ApiMaxPageSize THEN Rejected("api", "400", min_length)
        ELSE IF window_too_small(min_length, db_window_size)
        THEN Rejected("api", "400", min_length)
        ELSE IF ~SymbolFound(q) THEN Rejected("api", "404", min_length)
        ELSE LET res == query_windows_by_symbol_id(q, 0, get_num_insns(q), min_length,
                                                   db_window_size, size, page)
             IN  [handler |-> "api", status |-> "200", symbol_id |-> q,
                  window_size |-> min_length, queried |-> TRUE,
                  rows |-> res.windows, out |-> <<>>]
    /\ UNCHANGED <<db_window_size, sources, symbols, windows, mem, diff, laterVars>>

\* the command or the request is over: its output is gone
Exit ==
    /\ resp # NoResp
    /\ resp' = NoResp
    /\ UNCHANGED <<db_window_size, sources, symbols, windows, mem, diff, laterVars>>

----------------------------------------------------------------------------
(* The database and its submatch handlers *)

\* no in-memory command has run
\* no file has been read and CleanBins has not run
LoadIdle ==
    /\ rd = Idle
    /\ plat = Idle
    /\ rel = Idle
    /\ clean = Idle

CommandsIdle ==
    /\ mem = MemIdle
    /\ diff = DiffIdle
    /\ batch = Idle
    /\ hsym = Idle
    /\ mdb = Idle
    /\ ingest = Idle
    /\ objs = Idle
    /\ LoadIdle

Init ==
    /\ db_window_size \in DbWindowSizes
    /\ sources = <<[project_id |-> 2, version_id |-> 1], [project_id |-> 1, version_id |-> 2]>>
    /\ symbols = <<>>
    /\ windows = {}
    /\ resp = NoResp
    /\ CommandsIdle

Next ==
    \/ \E opcodes \in SeqsUpTo(Opcodes, MaxLen) : AddSymbol(opcodes)
    \/ \E q \in 1..MaxSymbols, window_size \in 1..MaxUserWindow :
            CliSubmatch(q, window_size)
    \/ Exit

Spec == Init /\ [][Next]_vars

\* the same database behind the later command line and the HTTP service
NextApi ==
    \/ \E opcodes \in SeqsUpTo(Opcodes, MaxLen) : AddSymbol(opcodes)
    \/ \E q \in 1..MaxSymbols, window_size \in 1..MaxUserWindow :
            CliDbSubmatch(q, window_size)
    \/ \E q \in 1..MaxSymbols, min_length \in 1..MaxUserWindow, paging \in PagingInputs :
            ApiSubmatch(q, min_length, paging[1], paging[2])
    \/ Exit

SpecApi == Init /\ [][NextApi]_vars

----------------------------------------------------------------------------
(* Claims about the database submatch query *)

CliAnswered == resp.handler = "cli" /\ resp.status = "ok"

\* window i of symbol q and window j of symbol s carry the same hash
WinEq(q, i, s, j) ==
    \E a \in windows, b \in windows :
        /\ a.symbol_id = q /\ a.pos = i
        /\ b.symbol_id = s /\ b.pos = j
        /\ a.hash = b.hash

\* the rows of final_sequences for the query symbol q
Runs(q) == final_sequences(sequence_groups(potential_matches(q)))

RunCovers(r, s, qpos, spos) ==
    /\ r.symbol_id = s
    /\ r.start_query_pos <= qpos
    /\ qpos < r.start_query_pos + r.length
    /\ qpos - spos = r.start_query_pos - r.start_match_pos

\* C1: before the minimum-length filter the rows of the submatch query are exactly
\* the maximal diagonal runs: every pair of equal-hash windows between the query
\* symbol and another symbol lies in exactly one row, every row consists of equal
\* window pairs only, no row can be extended at either end of its diagonal, and the
\* query symbol is never matched against itself.
C1_MaximalDiagonalRuns ==
    CliAnswered =>
        LET q == resp.symbol_id
            runs == Runs(q)
        IN  /\ \A a \in windows, b \in windows :
                    (a.symbol_id = q /\ b.symbol_id # q /\ a.hash = b.hash) =>
                        Cardinality({ r \in runs :
                                        RunCovers(r, b.symbol_id, a.pos, b.pos) }) = 1
            /\ \A r \in runs :
                /\ r.symbol_id # q
                /\ r.length >= 1
                /\ \A k \in 0..(r.length - 1) :
                        WinEq(q, r.start_query_pos + k, r.symbol_id, r.start_match_pos + k)
                /\ ~WinEq(q, r.start_query_pos - 1, r.symbol_id, r.start_match_pos - 1)
                /\ ~WinEq(q, r.start_query_pos + r.length,
                          r.symbol_id, r.start_match_pos + r.length)

\* a query answered with two runs on one diagonal of one symbol (a gap between them)
C1_Witness ==
    /\ CliAnswered
    /\ \E r1 \in Runs(resp.symbol_id), r2 \in Runs(resp.symbol_id) :
        /\ r1 # r2
        /\ r1.symbol_id = r2.symbol_id
        /\ r1.pos_diff = r2.pos_diff

\* C2: every run returned for a user window width W_user >= W_db is at least
\* W_user - W_db + 1 database windows long.
C2_MinimumRunLength ==
    CliAnswered =>
        \A i \in DOMAIN resp.rows :
            resp.rows[i].length >= resp.window_size - db_window_size + 1

\* the ordering tuple of a returned row, longest first
RowLengthDescKey(w) ==
    <<0 - w.length, w.project_id, w.source_id, w.symbol_id, w.query_start, w.match_start>>

\* C4: the returned rows are sorted by (length descending, project_id, source_id,
\* symbol_id, start_qpos, start_spos).
C4_SortedLongestFirst ==
    CliAnswered =>
        \A i \in DOMAIN resp.rows :
            i < Len(resp.rows) =>
                ~LexLess(RowLengthDescKey(resp.rows[i + 1]), RowLengthDescKey(resp.rows[i]))

\* C5: no two returned rows agree on all of (length, project_id, source_id,
\* symbol_id, start_qpos, start_spos).
C5_OrderingTupleIsTotal ==
    CliAnswered =>
        \A i \in DOMAIN resp.rows, j \in DOMAIN resp.rows :
            i # j => RowLengthDescKey(resp.rows[i]) # RowLengthDescKey(resp.rows[j])

\* a query answered with two runs of one length against one symbol
C5_Witness ==
    /\ CliAnswered
    /\ \E i \in DOMAIN resp.rows, j \in DOMAIN resp.rows :
        /\ i # j
        /\ resp.rows[i].symbol_id = resp.rows[j].symbol_id
        /\ resp.rows[i].length = resp.rows[j].length

\* C6: the length shown for a run is length_in_db_windows + W_db - 1, whatever the
\* width the user asked for.
C6_ShownLength ==
    CliAnswered =>
        \A i \in DOMAIN resp.out :
            resp.out[i].insns = resp.rows[i].length + db_window_size - 1

----------------------------------------------------------------------------
(* Claims about the handlers of the later command line and the HTTP service *)

\* C3: a submatch request with W_user < W_db is answered with an error (400 by the
\* HTTP handler, Err by the command line) before the submatch query is issued, and
\* no runs are returned.
C3_NarrowWindowRejected ==
    (resp.handler \in {"api", "cli_db"} /\ resp.window_size < db_window_size) =>
        /\ resp.status = (IF resp.handler = "api" THEN "400" ELSE "err")
        /\ ~resp.queried
        /\ resp.rows = <<>>

\* the HTTP handler has rejected a request narrower than the database windows
C3_Witness ==
    /\ resp.handler = "api"
    /\ resp.window_size < db_window_size
    /\ resp.status = "400"
    /\ symbols # <<>>

----------------------------------------------------------------------------
(* The in-memory submatch command *)

DbIdle ==
    /\ db_window_size = 1
    /\ sources = <<>>
    /\ symbols = <<>>
    /\ windows = {}
    /\ resp = NoResp

InitMem ==
    /\ DbIdle
    /\ CommandsIdle

NextMem ==
    \/ /\ mem.stage = "idle"
       /\ \E a \in SeqsUpTo(MemOpcodes, MaxLen), b \in SeqsUpTo(MemOpcodes, MaxLen),
             window_size \in 1..MaxUserWindow :
               HashSymbols(a, b, window_size)
    \/ FindSubmatches

SpecMem == InitMem /\ [][NextMem]_vars

----------------------------------------------------------------------------
(* Claims about the window hasher and the in-memory submatch *)

\* the slice x[i..i+n] of a zero-based vector
Slice(x, i, n) == SubSeq(x, i + 1, i + n)

\* C7: every match reported by get_submatches denotes `length` equal consecutive
\* opcodes starting at offset1 in a and at offset2 in b, and every maximal shared
\* run of L >= W opcodes is reported with its offsets and the length L.
C7_SubmatchSoundAndComplete ==
    mem.stage = "matched" =>
        LET a == mem.a
            b == mem.b
            W == mem.window_size
            Shared(i, j, L) ==
                /\ i + L <= Len(a)
                /\ j + L <= Len(b)
                /\ Slice(a, i, L) = Slice(b, j, L)
            Maximal(i, j, L) ==
                /\ Shared(i, j, L)
                /\ ~(i > 0 /\ j > 0 /\ a[i] = b[j])
                /\ ~(i + L < Len(a) /\ j + L < Len(b) /\ a[i + L + 1] = b[j + L + 1])
        IN  /\ \A m \in Range(mem.matches) : Shared(m.offset1, m.offset2, m.length)
            /\ \A i \in 0..Len(a), j \in 0..Len(b), L \in W..MaxLen :
                    Maximal(i, j, L) =>
                        [offset1 |-> i, offset2 |-> j, length |-> L] \in Range(mem.matches)

----------------------------------------------------------------------------
(* Comparing two symbols *)

InitDiff ==
    /\ CommandsIdle
    /\ DbIdle

NextDiff ==
    \/ /\ diff.stage = "idle"
       /\ \E bytes1 \in RawBytes(MaxInsns), bytes2 \in RawBytes(MaxInsns) :
               NewSymbols(bytes1, bytes2)
    \/ \E threshold \in Thresholds : DiffSymbols(threshold)

SpecDiff == InitDiff /\ [][NextDiff]_vars

\* C9: diff_symbols returns a number between 0 and 1 for every pair of symbols,
\* two symbols with empty opcode vectors included.
C9_ScoreInUnitInterval ==
    diff.stage = "scored" =>
        /\ ~diff.score.nan
        /\ 0 <= diff.score.num
        /\ diff.score.num <= diff.score.den

\* C10: a symbol with non-empty bytes compared with itself scores exactly 1.0,
\* whatever the threshold.
C10_SelfSimilarityIsOne ==
    (/\ diff.stage = "scored"
     /\ diff.sym1 = diff.sym2
     /\ diff.sym1.bytes # <<>>) =>
        /\ ~diff.score.nan
        /\ diff.score.num = diff.score.den

\* C11: diff_symbols returns 1.0 only for symbols with equal bytes, and returns
\* exactly 0.9999 when the opcode vectors are equal but the bytes differ.
C11_OnlyEqualBytesScoreOne ==
    diff.stage = "scored" =>
        /\ (~diff.score.nan /\ diff.score.num = diff.score.den)
                => diff.sym1.bytes = diff.sym2.bytes
        /\ (diff.sym1.opcodes = diff.sym2.opcodes /\ diff.sym1.bytes # diff.sym2.bytes)
                => (~diff.score.nan /\ diff.score.num * 10000 = 9999 * diff.score.den)

\* longer is shorter with one opcode inserted somewhere
OneInsertion(shorter, longer) ==
    /\ Len(longer) = Len(shorter) + 1
    /\ \E k \in DOMAIN longer :
            shorter = SubSeq(longer, 1, k - 1) \o SubSeq(longer, k + 1, Len(longer))

\* C12: the distance is counted in opcodes: two opcode vectors of lengths l and
\* l + 1 that differ by one inserted opcode, compared under a threshold that lets
\* the length guard pass, score (l + (l + 1) - 1) / (l + (l + 1)).
C12_DistanceInOpcodes ==
    LET l1 == Len(diff.sym1.opcodes)
        l2 == Len(diff.sym2.opcodes)
        t == diff.threshold
    IN  (/\ diff.stage = "scored"
         /\ OneInsertion(diff.sym1.opcodes, diff.sym2.opcodes)
         /\ t.den <= (t.den - t.num) * (l1 + l2)) =>
            /\ ~diff.score.nan
            /\ diff.score.num * (l1 + l2) = (l1 + l2 - 1) * diff.score.den

----------------------------------------------------------------------------
(* The cluster and compare commands *)

InitBatch ==
    /\ DbIdle /\ CommandsIdle

NextBatch ==
    \/ /\ batch.stage = "idle"
       /\ \E raw \in SeqsUpTo(ClusterPool, MaxBatch), threshold \in BatchThresholds,
             min_len \in MinLens :
               Cluster(raw, threshold, min_len)
    \/ /\ batch.stage = "idle"
       /\ \E raw1 \in SeqsUpTo(BinaryPool, MaxBin), raw2 \in SeqsUpTo(BinaryPool, MaxBin),
             threshold \in BatchThresholds, min_len \in MinLens :
               CompareBinaries(raw1, raw2, threshold, min_len)
    \/ BatchExit

SpecBatch == InitBatch /\ [][NextBatch]_vars

\* the symbols of the batch with at least min_len opcodes
Eligible(syms, min_len) == { i \in DOMAIN syms : Len(syms[i].opcodes) >= min_len }

\* C13: get_clusters returns a partition of the eligible symbols: every symbol with
\* at least min_len opcodes is in exactly one cluster, at one place of it, every
\* shorter symbol is in none, and no cluster is empty.
C13_ClustersPartitionEligible ==
    batch.stage = "clustered" =>
        LET places(i) == { <<c, k>> \in (DOMAIN batch.clusters) \X (1..(MaxBatch + 1)) :
                              k \in DOMAIN batch.clusters[c] /\ batch.clusters[c][k] = i }
        IN  /\ \A i \in DOMAIN batch.symbols :
                Cardinality(places(i)) =
                    (IF i \in Eligible(batch.symbols, batch.min_len) THEN 1 ELSE 0)
            /\ \A c \in DOMAIN batch.clusters : batch.clusters[c] # <<>>

\* a symbol joined a cluster it did not start, another one was left out for its length
C13_Witness ==
    /\ batch.stage = "clustered"
    /\ \E c \in DOMAIN batch.clusters : Len(batch.clusters[c]) >= 2
    /\ Eligible(batch.symbols, batch.min_len) # DOMAIN batch.symbols

\* the symbols of bin2 that are long enough and score above the threshold against a
Candidates(i) ==
    { j \in Eligible(batch.bin2, batch.min_len) :
        score_gt(diff_symbols(batch.bin1[i], batch.bin2[j], batch.threshold),
                 batch.threshold) }

\* C14: compare emits at most one triple per symbol a of A with at least min_len
\* opcodes and none for a shorter one; a triple is emitted iff some b of B with at
\* least min_len opcodes scores above the threshold, and the emitted b has the
\* maximum score among those, the earliest in B among equal maxima.
C14_BestMatchPerSymbol ==
    batch.stage = "compared" =>
        \A i \in DOMAIN batch.bin1 :
            LET triples == { k \in DOMAIN batch.matched : batch.matched[k].a = i }
                d(j) == diff_symbols(batch.bin1[i], batch.bin2[j], batch.threshold)
                cand == Candidates(i)
            IN  /\ Cardinality(triples) <= 1
                /\ (triples # {}) <=>
                        (i \in Eligible(batch.bin1, batch.min_len) /\ cand # {})
                /\ \A k \in triples :
                        LET b == batch.matched[k].b
                            best == d(b)
                        IN  /\ b \in cand
                            /\ batch.matched[k].score = best
                            /\ \A j \in cand : ~score_gt(d(j), best)
                            /\ \A j \in cand : j < b => score_gt(best, d(j))

\* a triple was emitted for a symbol with two candidates of the same best score
C14_Witness ==
    /\ batch.stage = "compared"
    /\ \E k \in DOMAIN batch.matched :
        LET i == batch.matched[k].a
            b == batch.matched[k].b
        IN  \E j \in Candidates(i) :
                /\ j > b
                /\ ~score_gt(batch.matched[k].score,
                             diff_symbols(batch.bin1[i], batch.bin2[j], batch.threshold))

----------------------------------------------------------------------------
(* The match queries *)

InitMatch ==
    /\ CommandsIdle /\ DbIdle

NextMatch ==
    \/ \E source_id \in DOMAIN MatchSources, hashes \in StoredHashes :
            MatchCreateSymbol(source_id, hashes)
    \/ \E channel \in Channels, q \in 1..MaxMatchSymbols : MatchQuery(channel, q)
    \/ \E channel \in Channels, q \in 1..MaxMatchSymbols : DbMatchQuery(channel, q)
    \/ MatchDone

SpecMatch == InitMatch /\ [][NextMatch]_vars

\* C15: on each channel the match query for a stored symbol q returns exactly the
\* stored symbols other than q whose hash on that channel equals q's, symbols of a
\* source without a version included, and never q itself.
C15_MatchReturnsAllEqualHashes ==
    (mdb.stage = "stored" /\ mdb.answer.by # "none") =>
        LET q == mdb.answer.q
            ch == mdb.answer.channel
        IN  /\ q \notin mdb.answer.rows
            /\ \A id \in DOMAIN mdb.symbols :
                    id \in mdb.answer.rows <=>
                        (/\ id # q
                         /\ channel_hash(mdb.symbols[id], ch) = channel_hash(mdb.symbols[q], ch))

----------------------------------------------------------------------------
(* Hashing symbols *)

\* the bijections on the relocation targets
Renamings ==
    LET T == { r.target_symbol : r \in RelocIdentities }
    IN  { f \in [T -> T] : \A x, y \in T : f[x] = f[y] => x = y }

InitHash ==
    /\ DbIdle
    /\ CommandsIdle

NextHash ==
    \/ /\ hsym.stage = "idle"
       /\ \E bytes \in HashBytes(MaxHashInsns), vram \in HashVrams :
            \E relocations \in RelocMaps(bytes, vram) :
                HashSymbol(bytes, vram, "N64", relocations)
    \/ \E vram \in HashVrams : HashRelocated(vram)
    \/ \E rename \in Renamings : HashRenamed(rename)
    \/ \E i \in 1..MaxHashInsns, word \in HashWords : HashEdited(i, word)

SpecHash == InitHash /\ [][NextHash]_vars

\* C16: with empty relocation maps equal exact hashes imply equal equivalence
\* hashes, whatever the vram of the two symbols, and equal equivalence hashes imply
\* equal opcode hashes; with relocations equal equivalence hashes still imply
\* equal opcode hashes.
C16_HashLayering ==
    hsym.stage = "pair" =>
        /\ (/\ DOMAIN hsym.a.relocations = {}
            /\ DOMAIN hsym.b.relocations = {}
            /\ hsym.a.exact_hash = hsym.b.exact_hash)
                => hsym.a.equiv_hash = hsym.b.equiv_hash
        /\ hsym.a.equiv_hash = hsym.b.equiv_hash
                => hsym.a.opcode_hash = hsym.b.opcode_hash

\* the relocation ids fed to the hasher for a symbol, in instruction order
RelocTokens(sym) == SelectSeq(sym.equiv_hash, LAMBDA tok : tok[1] = "reloc")

RECURSIVE RelocatedInsns(_, _)
\* the identities of the relocated instructions of a symbol from instruction i on
RelocatedInsns(sym, i) ==
    IF i > Len(sym.bytes) \div insn_length THEN <<>>
    ELSE LET addr == sym.vram + (i - 1) * insn_length
         IN  (IF addr \in DOMAIN sym.relocations THEN <<sym.relocations[addr]>> ELSE <<>>)
             \o RelocatedInsns(sym, i + 1)

\* C17: the equivalence hash sees relocations only as dense ids 0, 1, 2, ... given
\* in order of first appearance of each identity (target_symbol, addend, kind):
\* relocations with the same identity at different addresses get the same id, and
\* renaming the relocation targets by a bijection leaves equiv_hash unchanged.
C17_DenseRelocIds ==
    hsym.stage \in {"one", "pair"} =>
        LET ids == RelocTokens(hsym.a)
            idents == RelocatedInsns(hsym.a, 1)
        IN  /\ Len(ids) = Len(idents)
            /\ \A k \in DOMAIN ids :
                    ids[k][2] = Cardinality({ idents[j] : j \in 1..(k - 1) } \ {idents[k]})
                    \/ \E j \in 1..(k - 1) : idents[j] = idents[k] /\ ids[j] = ids[k]
            /\ \A j, k \in DOMAIN ids : (ids[j] = ids[k]) <=> (idents[j] = idents[k])
            /\ (hsym.stage = "pair" /\ hsym.how = "renamed")
                    => hsym.a.equiv_hash = hsym.b.equiv_hash

\* a symbol with relocations at two addresses was hashed again with its targets renamed
C17_Witness ==
    /\ hsym.stage = "pair"
    /\ hsym.how = "renamed"
    /\ Cardinality(DOMAIN hsym.a.relocations) = 2
    /\ hsym.b.relocations # hsym.a.relocations

InitIngest ==
    /\ DbIdle
    /\ CommandsIdle

NextIngest ==
    \/ \E nver \in 0..MaxVersions : AddProject(nver)
    \/ IngestCreateProject
    \/ IngestBegin
    \/ \E nobj \in 0..MaxObjFiles : IngestCreateVersion(nobj)
    \/ IngestObjectsCreate
    \/ IngestCreateSource
    \/ \E has_symbols \in BOOLEAN : IngestReadElf(has_symbols)
    \/ IngestCreateMany
    \/ IngestWindowHashes
    \/ IngestCommit
    \/ IngestFail
    \/ IngestExit

SpecIngest == InitIngest /\ [][NextIngest]_vars

\* the rows of the project's own tables that other connections can see
VisibleProjectRows == { r \in ingest.visible : r.table \in ProjectTables }

\* C18: the ingest writes of one project are atomic: rows written in the
\* transaction become visible only once every version has been written, and after
\* a failed AddProject no project, version, source, symbol or window row of the
\* project is visible.
C18_IngestAtomicPerProject ==
    /\ ingest.stage \in {"running", "done", "failed"}
            => ((VisibleProjectRows \ {ProjectRow}) # {}
                    => /\ ingest.stage = "done"
                       /\ \A v \in 1..ingest.nver : Row("versions", v, 0) \in ingest.visible)
    /\ ingest.stage = "failed" => VisibleProjectRows = {}

\* one task calls objects::create again and again
InitObjSeq ==
    /\ DbIdle
    /\ mem = MemIdle /\ diff = DiffIdle
    /\ batch = Idle /\ hsym = Idle /\ mdb = Idle /\ ingest = Idle
    /\ LoadIdle
    /\ \E stale \in BOOLEAN : objs = ObjsInit(stale)

NextObjSeq ==
    \/ ObjBegin(1)
    \/ \E bytes \in Blobs : ObjCreate(1, bytes)
    \/ ObjInsert(1)
    \/ ObjSelect(1)
    \/ ObjExists(1)
    \/ ObjFileCreate(1)
    \/ ObjWrite(1)
    \/ ObjReturn(1)
    \/ ObjCommit(1)

SpecObjSeq == InitObjSeq /\ [][NextObjSeq]_vars

InitObjConc ==
    /\ mem = MemIdle /\ diff = DiffIdle
    /\ batch = Idle /\ hsym = Idle /\ mdb = Idle /\ ingest = Idle
    /\ LoadIdle
    /\ DbIdle
    /\ \E stale \in BOOLEAN : objs = ObjsInit(stale)

NextObjConc ==
    \E t \in Tasks :
        \/ ObjBegin(t)
        \/ objs.tasks[t].calls = 0 /\ \E bytes \in Blobs : ObjCreate(t, bytes)
        \/ ObjInsert(t)
        \/ ObjSelect(t)
        \/ ObjExists(t)
        \/ ObjFileCreate(t)
        \/ ObjWrite(t)
        \/ ObjReturn(t)
        \/ ObjCommit(t)

SpecObjConc == InitObjConc /\ [][NextObjConc]_vars

\* no task is inside a transaction
ObjQuiescent == \A t \in Tasks : objs.tasks[t].pc = "idle"

InitRead ==
    /\ CommandsIdle
    /\ DbIdle
    /\ db_window_size = 1

NextRead ==
    \/ /\ rd.stage = "idle"
       /\ \E data \in ReadData, syms \in ReadSymbols : ReadElf(data, syms)
    \/ /\ rd.stage = "idle"
       /\ \E rom_bytes \in ReadData, syms \in ReadSymbols : ReadMap(rom_bytes, syms)
    \/ ReadExit

SpecRead == InitRead /\ [][NextRead]_vars

\* the symbols of the file whose bytes lie inside the data
InBounds(data, syms) ==
    SelectSeq(syms, LAMBDA s : s.start + s.size <= Len(data))

\* C21: read_elf and read_map skip a symbol whose byte range leaves the section or
\* image data and go on with the other symbols: the call does not panic, and the
\* symbols returned are exactly the ones in bounds, in file order.
C21_OutOfBoundsSymbolSkipped ==
    rd.stage = "done" =>
        /\ ~rd.panic
        /\ [k \in DOMAIN rd.ret |-> rd.ret[k].def] = InBounds(rd.data, rd.syms)

InitPlat ==
    /\ DbIdle
    /\ sources = <<>>
    /\ CommandsIdle

NextPlat ==
    \/ \E name \in PlatformNames : PlatAddProject(name)
    \/ \E name \in PlatformNames : PlatCollectSymbols(name)
    \/ /\ plat.stage = "idle"
       /\ \E names \in SeqsUpTo(PlatformNames, MaxScratches) : PlatImportDecompme(names)
    \/ PlatExit

SpecPlat == InitPlat /\ [][NextPlat]_vars

\* the platform names the system supports, in lower case
SupportedNames == {"n64", "psx", "ps2", "gc_wii", "psp"}

\* C22: Platform::from_name returns None for every name outside the supported
\* set, and an ingestion command given such a name returns an error: it never
\* panics.
C22_UnknownPlatformIsAnError ==
    /\ \A name \in PlatformNames :
            to_lowercase(name) \notin SupportedNames => from_name(name) = None
    /\ plat.stage = "done" =>
            /\ ~plat.panic
            /\ (plat.command \in {"AddProject", "collect_symbols"}
                /\ to_lowercase(plat.names[1]) \notin SupportedNames) => plat.error

\* the last insn_length bytes of a byte vector are all zero
EndsInZeroChunk(bytes) ==
    /\ Len(bytes) >= insn_length
    /\ \A k \in (Len(bytes) - insn_length + 1)..Len(bytes) : bytes[k] = 0

\* C23: after Symbol::new, whatever the input bytes, the stored bytes do not end in
\* an all-zero chunk of insn_length bytes, their length is a multiple of the
\* instruction length, and there is one opcode per insn_length bytes.
C23_SymbolBytesWholeInstructions ==
    diff.stage \in {"built", "scored"} =>
        \A sym \in {diff.sym1, diff.sym2} :
            /\ ~EndsInZeroChunk(sym.bytes)
            /\ Len(sym.bytes) % insn_length = 0
            /\ Len(sym.opcodes) * insn_length = Len(sym.bytes)

\* symbol i scores above the threshold against symbol h, the head of a cluster
MatchesHead(i, h) ==
    score_gt(diff_symbols_insns(batch.symbols[i], batch.symbols[h], batch.threshold),
             batch.threshold)

\* the first members of the clusters; a cluster was created when its head was visited
ClusterHeads == { batch.clusters[c][1] : c \in DOMAIN batch.clusters }

\* C24: get_clusters assigns by first match: a symbol that is not the head of its
\* cluster scores above the threshold against that head and against the head of no
\* cluster created earlier, and a symbol is the head of a new cluster iff it scores
\* above the threshold against the head of no cluster that existed when it was visited.
C24_FirstMatchRule ==
    batch.stage = "clustered" =>
        /\ \A c \in DOMAIN batch.clusters :
            \A k \in 2..Len(batch.clusters[c]) :
                LET i == batch.clusters[c][k]
                    h == batch.clusters[c][1]
                IN  /\ h < i
                    /\ MatchesHead(i, h)
                    /\ \A g \in ClusterHeads : g < h => ~MatchesHead(i, g)
        /\ \A i \in Eligible(batch.symbols, batch.min_len) :
                i \in ClusterHeads <=> \A g \in ClusterHeads : g < i => ~MatchesHead(i, g)

\* a symbol matched the heads of two clusters and is in the older one; the head of
\* the younger cluster had matched no head and started a cluster of its own
C24_Witness ==
    /\ batch.stage = "clustered"
    /\ \E c \in DOMAIN batch.clusters :
        \E k \in 2..Len(batch.clusters[c]) :
            \E g \in ClusterHeads :
                /\ g > batch.clusters[c][1]
                /\ g < batch.clusters[c][k]
                /\ MatchesHead(batch.clusters[c][k], g)

----------------------------------------------------------------------------
(* The operand rules of the equivalence hash *)

InitOperand ==
    /\ DbIdle
    /\ CommandsIdle

NextOperand ==
    \/ /\ hsym.stage = "idle"
       /\ \E platform \in OperandPlatforms, bytes \in OperandBytes(MaxOperandInsns) :
            \E relocations \in OperandRelocMaps(bytes, 0) :
                HashSymbol(bytes, 0, platform, relocations)
    \/ \E i \in 1..MaxOperandInsns, word \in OperandWords : HashEdited(i, word)

SpecOperand == InitOperand /\ [][NextOperand]_vars

\* the i-th instruction word of a hashed symbol, and the operands it decodes to
WordAt(h, i) == SubSeq(h.bytes, (i - 1) * insn_length + 1, i * insn_length)

OperandsAt(h, i) ==
    valued_operands(WordAt(h, i), h.vram + (i - 1) * insn_length, h.platform)

\* the operand kinds whose value is an immediate, an offset, a jump label or a
\* displacement taken from the instruction word
ImmediateLike ==
    {"core_imm_i16", "core_imm_u16", "core_label", "Simm", "Uimm", "Offset", "BranchDest",
     "OpaqueU"}

RegisterLike == {"core_rs", "core_rt", "core_rd", "GPR", "CRBit"}

\* an operand without its immediate value: its kind, and the base register of
\* offset(base)
WithoutImmediate(vo) ==
    IF vo[1] \in ImmediateLike THEN <<vo[1]>>
    ELSE IF vo[1] = "core_imm_rs" THEN <<vo[1], vo[3]>>
    ELSE vo

\* the registers of an operand
RegistersOf(vo) ==
    IF vo[1] \in RegisterLike THEN <<vo[2]>>
    ELSE IF vo[1] = "core_imm_rs" THEN <<vo[3]>>
    ELSE <<>>

\* the one instruction in which the two symbols of an edited pair differ
EditedInsns ==
    { i \in 1..(Len(hsym.a.bytes) \div insn_length) : WordAt(hsym.a, i) # WordAt(hsym.b, i) }

RelocatedAt(h, i) == (h.vram + (i - 1) * insn_length) \in DOMAIN h.relocations

SameShape(i) ==
    LET oa == OperandsAt(hsym.a, i)
        ob == OperandsAt(hsym.b, i)
    IN  /\ instruction_opcode(WordAt(hsym.a, i)) = instruction_opcode(WordAt(hsym.b, i))
        /\ Len(oa) = Len(ob)
        /\ \A k \in DOMAIN oa : oa[k][1] = ob[k][1]

DifferOnlyInImmediates(i) ==
    LET oa == OperandsAt(hsym.a, i)
        ob == OperandsAt(hsym.b, i)
    IN  /\ SameShape(i)
        /\ oa # ob
        /\ \A k \in DOMAIN oa : WithoutImmediate(oa[k]) = WithoutImmediate(ob[k])

DifferInRegister(i) ==
    LET oa == OperandsAt(hsym.a, i)
        ob == OperandsAt(hsym.b, i)
    IN  /\ SameShape(i)
        /\ \E k \in DOMAIN oa : RegistersOf(oa[k]) # RegistersOf(ob[k])

----------------------------------------------------------------------------
(* The relocations of a MIPS section *)

InitReloc ==
    /\ DbIdle
    /\ CommandsIdle

NextReloc ==
    \/ /\ rel.stage = "idle"
       /\ \E relocs \in SeqsUpTo(RelocSitePool, MaxRelocs), overflow_checks \in BOOLEAN :
            GetRelocData(relocs, overflow_checks)
    \/ RelocExit

SpecReloc == InitReloc /\ [][NextReloc]_vars

IsHi16(r) == r.has_implicit_addend /\ r.r_type = "R_MIPS_HI16"

IsLo16(r) == r.has_implicit_addend /\ r.r_type = "R_MIPS_LO16"

\* the relocation at j is a HI16, the one at k a LO16 after it
HiThenLo(j, k) ==
    /\ j \in DOMAIN rel.relocs
    /\ k \in DOMAIN rel.relocs
    /\ j < k
    /\ IsHi16(rel.relocs[j])
    /\ IsLo16(rel.relocs[k])

\* the canonical relocation at the address of the i-th relocation is rec
RecordedAt(i, rec) ==
    /\ ~rel.out.panicked
    /\ RelocAddr(i) \in DOMAIN rel.out.section_relocs
    /\ rel.out.section_relocs[RelocAddr(i)] = rec

\* C26: for a HI16 followed by a LO16 with only HI16 and LO16 relocations between
\* them, the relocation recorded at the HI16 address and the one recorded at the
\* LO16 address have the same target and the same full addend
\* (hi << 16) + sign_extend_16(lo), hi and lo the low 16 bits of the two words.
C26_Hi16Lo16SameFullAddend ==
    rel.stage = "done" =>
        \A j, k \in DOMAIN rel.relocs :
            (/\ HiThenLo(j, k)
             /\ \A m \in (j + 1)..(k - 1) : IsHi16(rel.relocs[m]) \/ IsLo16(rel.relocs[m]))
            => LET full == wide_sum(hi16_addend(rel.relocs[j].halfword),
                                    lo16_addend(rel.relocs[k].halfword))
                   rec == get_reloc_target(rel.relocs[k], to_i32(full))
               IN  InI32(full) /\ RecordedAt(j, rec) /\ RecordedAt(k, rec)

\* C27: a relocation that is neither HI16 nor LO16 (R_MIPS_26 too) clears the
\* pending HI16: a LO16 after it gives the earlier HI16 site no entry, and its own
\* addend does not include the addend of that HI16.
C27_OtherRelocClearsPendingHi16 ==
    (rel.stage = "done" /\ ~rel.out.panicked) =>
        \A j, k \in DOMAIN rel.relocs :
            (/\ HiThenLo(j, k)
             /\ k > j + 1
             /\ \A m \in (j + 1)..(k - 1) :
                    rel.relocs[m].r_type \notin {"R_MIPS_HI16", "R_MIPS_LO16"})
            => /\ RelocAddr(j) \notin DOMAIN rel.out.section_relocs
               /\ RecordedAt(k, get_reloc_target(rel.relocs[k],
                                                 lo16_addend(rel.relocs[k].halfword)))

\* C30: the full addend of a LO16 never overflows signed 32-bit arithmetic:
\* (hi << 16) as i32 plus sign_extend_16(lo) lies within [-2^31, 2^31 - 1].
C30_FullAddendFitsI32 ==
    rel.stage = "done" => ~rel.out.overflowed

----------------------------------------------------------------------------
(* The rows written for the symbols of an object file *)

NextPersist ==
    \E source_id \in DOMAIN sources, n \in 1..(MaxPersisted - Len(symbols)) :
        /\ \A id \in DOMAIN symbols : symbols[id].source_id # source_id
        /\ \E syms \in [1..n -> PersistVectors] : AddObjectSymbols(source_id, syms)

SpecPersist == Init /\ [][NextPersist]_vars

\* the rows {(symbol_id, k, h[k]) : 0 <= k < len(h)} of a hash list
WindowRows(symbol_id, h) ==
    { [symbol_id |-> symbol_id, pos |-> k - 1, hash |-> h[k]] : k \in 1..Len(h) }

\* C28: the windows stored for a symbol are exactly the rows (symbol_id, k, h[k]),
\* 0 <= k < len(h), of its hash list h, the positions 0-based, unique and contiguous
\* across the chunks, and the windows stored under a symbol id during the import of
\* a project are those of the opcode vector of that same symbol.
C28_WindowRowsOfOwnSymbol ==
    /\ \A w \in windows : w.symbol_id \in DOMAIN symbols
    /\ \A id \in DOMAIN symbols :
        \E opcodes \in PersistVectors :
            /\ HashOf(opcodes) = symbols[id].opcode_hash
            /\ { w \in windows : w.symbol_id = id }
                = WindowRows(id, get_opcode_hashes(opcodes, db_window_size))
            /\ { w.pos : w \in { x \in windows : x.symbol_id = id } }
                = 0..(Len(get_opcode_hashes(opcodes, db_window_size)) - 1)

\* one object file brought more symbols than one chunk of symbols::create holds,
\* different ones, and one of them more windows than one chunk of the window insert
C28_Witness ==
    /\ Len(symbols) > ChunkSize
    /\ \A id \in DOMAIN symbols : symbols[id].source_id = symbols[1].source_id
    /\ symbols[1].opcode_hash # symbols[Len(symbols)].opcode_hash
    /\ \E id \in DOMAIN symbols :
            Cardinality({ w \in windows : w.symbol_id = id }) > ChunkSize

----------------------------------------------------------------------------
(* CleanBins next to an import that calls objects::create *)

InitClean ==
    /\ DbIdle
    /\ mem = MemIdle /\ diff = DiffIdle
    /\ batch = Idle /\ hsym = Idle /\ mdb = Idle /\ ingest = Idle
    /\ LoadIdle
    /\ \E kept \in BOOLEAN, orphan \in BOOLEAN : objs = CleanObjsInit(kept, orphan)

NextClean ==
    \/ ObjBegin(1)
    \/ \E bytes \in Blobs : ObjCreate(1, bytes)
    \/ ObjInsert(1)
    \/ ObjSelect(1)
    \/ ObjExists(1)
    \/ ObjFileCreate(1)
    \/ ObjWrite(1)
    \/ ObjReturn(1)
    \/ ObjCommit(1)
    \/ CleanGlob
    \/ \E chunk_bins \in SUBSET { file_stem(p) : p \in BlobPaths } : CleanQuery(chunk_bins)
    \/ \E hash \in { file_stem(p) : p \in BlobPaths } : CleanDelete(hash)
    \/ CleanNextChunk
    \/ CleanDone

SpecClean == InitClean /\ [][NextClean]_vars

\* the import has committed and is in no transaction
IngestCommitted == objs.tasks[1].pc = "idle" /\ objs.tasks[1].txs > 0

\* C29: CleanBins never removes the blob of an object whose row is or becomes
\* committed: in every interleaving with an import that calls objects::create,
\* once the import has committed the blob file of every objects row exists; and run
\* alone, CleanBins deletes exactly the *.bin files whose hash has no objects row.
C29_CleanBinsKeepsCommittedBlobs ==
    /\ IngestCommitted =>
            \A r \in objs.rows : objs.files[bin_path_of(r.hash)].exists
    /\ (clean.stage = "done" /\ objs.tasks[1].txs = 0) =>
            clean.removed = { h \in clean.globbed : \A r \in objs.rows : r.hash # h }

====
